---------------------------- MODULE Spec2Model ----------------------------
(***************************************************************************)
(* A model of the retrieval/agent core of the Firefox profiler assistant:  *)
(* the ReAct control loop and its citation guardrails, the branch decision *)
(* gate and its session budget, the index manifest guard and the pipeline  *)
(* search, and the context summarizer.                                     *)
(*                                                                         *)
(* Python strings are modelled as sequences of one-character strings, so   *)
(* that scanning, slicing and offsets are computed as the code computes    *)
(* them.  Python offsets are 0-based and half open; Slice(s, a, b) is      *)
(* s[a:b].                                                                 *)
(***************************************************************************)
EXTENDS Integers, Sequences, FiniteSets, TLC

VARIABLES
  \* ---- run_react (agent/react.py) ----
  question,      \* the user question, a sequence of words
  max_steps,     \* the step ceiling of this run
  pc,            \* "await" while the loop runs, "done" / "error" after it
  model_calls,   \* number of call_model invocations so far
  raw_text,      \* the text call_model returned last, <<>> before the first
  tool_calls,    \* number of call_tool invocations so far
  steps,         \* the steps list
  seen_ids,      \* the seen-id set
  last_result,   \* last tool result, or NoResult
  tool_hits_arg, \* the "hits" entry of the args call_tool was given last
  outcome,       \* what run_react returned or raised
  \* ---- ensure_general_analysis (agent/agent_gate.py) ----
  tracer_context,  \* per tracer: its `context` attribute
  tracer_obj,      \* per tracer object: whether it is alive, and its id()
  global_state,    \* _GLOBAL_TRACER_STATE, per id()
  events,          \* per tracer: the trace events logged on it
  gate_calls,      \* the calls made so far and how each ended
  gate_last,       \* the last call: its profile, its rules, what it returned
  \* ---- index directory (rag/pipeline.py, rag/manifest.py) ----
  index_files,     \* vectors.npy and metas.jsonl of the index directory
  manifest_file,   \* manifest.json of the index directory
  idx_result,      \* what the most recent index operation returned or raised
  \* ---- context_summarize (rag/tools/context_summarize.py, rag/runtime.py) ----
  summarizer_impl, \* _SUMMARIZER_IMPL: "none", or the kind of callable registered
  sum_request,     \* the request of the most recent context_summarize call
  sum_response,    \* what that call returned or raised
  \* ---- search (rag/index.py NumpyIndex, app/bootstrap.py search_impl) ----
  np_dim,          \* NumpyIndex.dim: NoDim or a dimension
  np_width,        \* NumpyIndex._vecs.shape[1], NoDim while _vecs is None
  np_rows,         \* NumpyIndex._vecs: the rows, normalized vectors
  np_metas,        \* NumpyIndex._metas: the chunk ids of the metas
  np_added,        \* the shape of the add call, if the last call was an add
  kw_corpus,       \* the corpus of the keyword search_impl bootstrap registered
  search_result,   \* what the most recent search operation returned or raised
  \* ---- get_docs_by_id (rag/tools/get_docs_by_id.py, app/bootstrap.py) ----
  docs_store,      \* _DOCS_IMPL: the maps of the registered docs impl, or none
  docs_request,    \* the request of the most recent get_docs_by_id call
  docs_response,   \* what that call returned or raised
  \* ---- call_tool (agent/tool_router.py, runtime/context.py) ----
  current_profile, \* _CURRENT_PROFILE: "none", or the profile the CLI has set
  impls_configured,\* whether a search impl and a docs impl are registered
  router_call,     \* the name and payload of the most recent call_tool
  router_result,   \* how that call ended and what it invoked on the way
  \* ---- ingest_tree (rag/ingest.py) ----
  md_tree,         \* the markdown files under the input directory, by path
  ingest_pos,      \* 0 while no run is under way, else the file to read next
  all_chunks,      \* all_chunks of the run under way
  jsonl_out,       \* the chunks of the JSONL file written last
  \* ---- manifest.json under concurrent use (rag/manifest.py) ----
  mf_inodes,       \* the files ever created in the index directory: contents
  mf_tmp,          \* the file manifest.json.tmp names, 0 if there is none
  mf_final,        \* the file manifest.json names, 0 if there is none
  mf_writer,       \* per writer: where it is in write_index_manifest
  mf_read,         \* what the most recent _load_manifest observed
  \* ---- PolicyPreambleInjector.inject (policy/preamble.py) ----
  policy_file,     \* whether general-flow.md exists
  card_cache,      \* the loader's cache: "off", "empty" or "full"
  applied,         \* PolicyStateStore._applied: the profile ids set to True
  injector,        \* per thread: where it is in inject, and for which profile
  prepends,        \* per profile id: how many inject calls prepended the card
  inject_calls     \* the number of inject calls begun

reactVars == <<question, max_steps, pc, model_calls, raw_text, tool_calls, steps,
               seen_ids, last_result, tool_hits_arg, outcome>>

gateVars == <<tracer_obj, tracer_context, global_state, events, gate_calls,
              gate_last>>

idxVars == <<index_files, manifest_file, idx_result>>

sumVars == <<summarizer_impl, sum_request, sum_response>>

npIndex == <<np_dim, np_width, np_rows, np_metas>>

npVars == <<npIndex, np_added>>

searchVars == <<npVars, kw_corpus, search_result>>

docsVars == <<docs_store, docs_request, docs_response>>

routerVars == <<current_profile, impls_configured, router_call, router_result>>

ingestVars == <<md_tree, ingest_pos, all_chunks, jsonl_out>>

mfVars == <<mf_inodes, mf_tmp, mf_final, mf_writer, mf_read>>

policyVars == <<policy_file, card_cache, applied, injector, prepends,
                inject_calls>>

vars == <<reactVars, gateVars, idxVars, sumVars, searchVars, docsVars,
          routerVars, ingestVars, mfVars, policyVars>>

\* What the operations of one component leave alone.
exceptReact == <<gateVars, idxVars, sumVars, searchVars, docsVars,
                  routerVars, ingestVars, mfVars, policyVars>>
exceptGate == <<reactVars, idxVars, sumVars, searchVars, docsVars,
                 routerVars, ingestVars, mfVars, policyVars>>
exceptIdx == <<reactVars, gateVars, sumVars, searchVars, docsVars,
                routerVars, ingestVars, mfVars, policyVars>>
exceptSum == <<reactVars, gateVars, idxVars, searchVars, docsVars,
                routerVars, ingestVars, mfVars, policyVars>>
exceptSearch == <<reactVars, gateVars, idxVars, sumVars, docsVars,
                   routerVars, ingestVars, mfVars, policyVars>>
exceptDocs == <<reactVars, gateVars, idxVars, sumVars, searchVars,
                 routerVars, ingestVars, mfVars, policyVars>>
exceptIngest == <<reactVars, gateVars, idxVars, sumVars, searchVars, docsVars,
                  routerVars, mfVars, policyVars>>
exceptMf == <<reactVars, gateVars, idxVars, sumVars, searchVars, docsVars,
              routerVars, ingestVars, policyVars>>
exceptPolicy == <<reactVars, gateVars, idxVars, sumVars, searchVars, docsVars,
                  routerVars, ingestVars, mfVars>>
exceptRouter == <<reactVars, gateVars, idxVars, sumVars, searchVars, docsVars, ingestVars, mfVars, policyVars>>

----------------------------------------------------------------------------
(* Bounds of the model.                                                    *)

MaxStepsBound == 2    \* max_steps ranges over 0..MaxStepsBound
MaxSegs == 2          \* a final answer is made of at most MaxSegs segments
MaxCites == 1         \* a final action lists at most MaxCites citations
MaxGateCalls == 3     \* ensure_general_analysis is called at most this often
MaxVectors == 1       \* an index is built from at most MaxVectors chunks
MaxTokenBudget == 8   \* token_budget ranges over 0..MaxTokenBudget
MaxHits == 2          \* a summarize request carries at most MaxHits hits
MaxLlmSegs == 2       \* an LLM reply is made of at most MaxLlmSegs segments
MaxRows == 2          \* a NumpyIndex holds at most MaxRows vectors
MaxIds == 2           \* a get_docs_by_id request lists at most MaxIds ids
MaxFiles == 2         \* an input directory holds at most MaxFiles markdown files
MaxSections == 2      \* a markdown file has at most MaxSections sections
MaxManifestWrites == 3  \* write_index_manifest is called at most this often
ManifestParts == 2    \* the text of a manifest reaches the file in this many writes
MaxInjectCalls == 3   \* inject is called at most this often

----------------------------------------------------------------------------
(* Strings as character sequences.                                         *)

Range(s) == {s[i] : i \in 1..Len(s)}

\* s[a:b] of Python, for 0 <= a and b >= 0 (clamped to the length as Python does)
Slice(s, a, b) ==
  LET hi == IF b > Len(s) THEN Len(s) ELSE b
  IN  IF a >= hi THEN <<>> ELSE SubSeq(s, a + 1, hi)

\* s.find(ch, from): least 0-based index >= from holding ch, or -1
Find(s, ch, from) ==
  LET hitsAt == {i \in from..(Len(s) - 1) : s[i + 1] = ch}
  IN  IF hitsAt = {} THEN -1
      ELSE CHOOSE i \in hitsAt : \A j \in hitsAt : i <= j

IsSpace(ch) == ch \in {" ", "\n", "\t"}

RECURSIVE LStrip(_)
LStrip(s) == IF s # <<>> /\ IsSpace(Head(s)) THEN LStrip(Tail(s)) ELSE s

RECURSIVE RStrip(_)
RStrip(s) ==
  IF s # <<>> /\ IsSpace(s[Len(s)]) THEN RStrip(SubSeq(s, 1, Len(s) - 1)) ELSE s

\* str.strip()
Strip(s) == RStrip(LStrip(s))

RECURSIVE Flatten(_)
Flatten(ss) == IF ss = <<>> THEN <<>> ELSE Head(ss) \o Flatten(Tail(ss))

SeqsUpTo(S, n) == UNION {[1..k -> S] : k \in 0..n}

----------------------------------------------------------------------------
(* summarizers/base.py: extract_citations                                  *)

\* The scan loop of extract_citations from 0-based position i.
RECURSIVE ExtractFrom(_, _)
ExtractFrom(summary, i) ==
  IF i >= Len(summary) THEN <<>>
  ELSE IF summary[i + 1] = "("
       THEN LET j == Find(summary, ")", i + 1)
            IN  IF j # -1 /\ j > i + 1
                THEN LET inner == Slice(summary, i + 1, j)
                     IN  (IF inner # <<>> /\ Strip(inner) = inner
                          THEN <<[id |-> inner, offset |-> <<i + 1, j>>]>>
                          ELSE <<>>)
                         \o ExtractFrom(summary, j + 1)
                ELSE ExtractFrom(summary, i + 1)
       ELSE ExtractFrom(summary, i + 1)

extract_citations(summary) == ExtractFrom(summary, 0)

----------------------------------------------------------------------------
(* agent/guards.py                                                         *)

\* The alternatives of _SOURCES_RE.
SourceKeywords ==
  {"source", "sources", "cite", "citation", "citations", "reference",
   "references"}

\* re.I makes the match case-insensitive: the lower case of a word.
Lower(w) ==
  CASE w = "Sources" -> "sources"
    [] OTHER -> w

\* \b(...)\b matches exactly when some whole word is one of the keywords.
needs_citations(user_text) ==
  \E i \in 1..Len(user_text) : Lower(user_text[i]) \in SourceKeywords

inline_citation_ids(text) ==
  LET cs == extract_citations(text)
  IN  [i \in 1..Len(cs) |-> cs[i].id]

\* A validate_final that forgets the "required" check.
validate_final_no_require(user_text, final_answer, explicit_ids, seen) ==
  LET provided == IF explicit_ids = <<>>
                  THEN inline_citation_ids(final_answer)
                  ELSE explicit_ids
  IN  IF \E i \in 1..Len(provided) : provided[i] \notin seen
      THEN "GUARD_CITATION_UNKNOWN_ID"
      ELSE "OK"

\* validate_final: "OK" when it returns, else the code of the ValueError.
validate_final(user_text, final_answer, explicit_ids, seen) ==
  LET require  == needs_citations(user_text)
      provided == IF explicit_ids = <<>>
                  THEN inline_citation_ids(final_answer)
                  ELSE explicit_ids
  IN  IF require /\ Len(provided) = 0
      THEN "GUARD_CITATION_REQUIRED"
      ELSE IF \E i \in 1..Len(provided) : provided[i] \notin seen
           THEN "GUARD_CITATION_UNKNOWN_ID"
           ELSE "OK"

----------------------------------------------------------------------------
(* agent/react.py: tool results as run_react sees them                     *)

IdA == <<"a">>
IdB == <<"b">>
IdC == <<"c">>

\* An entry of a result list: its "id" is a string, or something else
\* (None, a number) that isinstance(.., str) rejects.
StrItem(v) == [isStr |-> TRUE, v |-> v]
NonStrItem == [isStr |-> FALSE, v |-> <<>>]

\* The value under "hits" / "docs" of a result: missing, not a list, a list.
Absent == [kind |-> "absent", items |-> <<>>]
NotList == [kind |-> "notlist", items |-> <<>>]
ListOf(items) == [kind |-> "list", items |-> items]

NoResult == [hits |-> Absent, docs |-> Absent]

\* What call_tool may hand back (retrieval tools return hits or docs; a
\* domain tool's dict is passed through as it is).
ToolResults ==
  {[hits |-> h, docs |-> Absent] :
      h \in {NotList, ListOf(<<StrItem(IdA)>>),
             ListOf(<<StrItem(IdB), NonStrItem>>)}}
  \cup
  {[hits |-> Absent, docs |-> d] :
      d \in {Absent, NotList, ListOf(<<NonStrItem, StrItem(IdB)>>)}}
  \cup
  {[hits |-> ListOf(<<StrItem(IdA)>>), docs |-> ListOf(<<StrItem(IdC)>>)]}

\* The string ids of one result list, as the loops of _collect_seen_ids add.
ListIds(field) ==
  IF field.kind = "list"
  THEN {field.items[i].v : i \in {k \in 1..Len(field.items) : field.items[k].isStr}}
  ELSE {}

\* _collect_seen_ids that replaces the accumulator instead of adding to it.
collect_seen_ids_replace(result, accum) ==
  ListIds(result.hits) \cup ListIds(result.docs)

\* _collect_seen_ids: the accumulator after the call.
collect_seen_ids(result, accum) ==
  accum \cup ListIds(result.hits) \cup ListIds(result.docs)

----------------------------------------------------------------------------
(* agent/react.py: run_react                                               *)

Questions == {<<"why">>, <<"list", "Sources">>, <<"resources">>, <<"cite", "why">>}

Segments == {<<"x">>, <<"(", "a", ")">>, <<"(", "b", ")">>}
Answers == {Flatten(ss) : ss \in SeqsUpTo(Segments, MaxSegs)}
CitationLists == SeqsUpTo({IdA, IdB}, MaxCites)

ToolAction(u) == [kind |-> "tool", usesLastHits |-> u, answer |-> <<>>,
                  citations |-> <<>>]
FinalAction(a, c) == [kind |-> "final", usesLastHits |-> FALSE, answer |-> a,
                      citations |-> c]
OtherAction == [kind |-> "other", usesLastHits |-> FALSE, answer |-> <<>>,
                citations |-> <<>>]

Step(action) == [action |-> action, hasObs |-> FALSE, observation |-> NoResult]
Observed(action, r) == [action |-> action, hasObs |-> TRUE, observation |-> r]

\* What the caller of run_react holds afterwards: the returned dict with
\* its answer, citations and steps, or a ValueError, which carries its
\* message and nothing else.
NoOutcome == [kind |-> "none", code |-> "", answer |-> <<>>, citations |-> <<>>,
              steps |-> <<>>]
Raised(code) == [kind |-> "raise", code |-> code, answer |-> <<>>,
                 citations |-> <<>>, steps |-> <<>>]
Returned(a, c, st) == [kind |-> "return", code |-> "", answer |-> a,
                       citations |-> c, steps |-> st]

\* A model output is a sequence of pieces of text: a fence, a language tag,
\* white space, or the text of a JSON value.  Fence stands for the three
\* backquotes that open and close a code block.
Fence == "'''"

\* The JSON texts, each with the value json.loads makes of it: whether it is
\* an object, its "action", its "name" (missing, not a string, empty, a
\* tool name) and which other keys it has.
JsonObject(action, name, args, answer, citations) ==
  [is_object |-> TRUE, action |-> action, name |-> name, has_args |-> args,
   has_answer |-> answer, has_citations |-> citations]

JsonOther ==
  [is_object |-> FALSE, action |-> "none", name |-> "missing",
   has_args |-> FALSE, has_answer |-> FALSE, has_citations |-> FALSE]

JsonTexts ==
  [ txt \in { "[1]", "{}", "{action:other}",
              "{action:tool,name:t,args}", "{action:tool,name:t}",
              "{action:tool,name:t,args:{hits:$last_hits}}",
              "{action:tool,args}", "{action:tool,name:1,args}",
              "{action:final,answer,citations}", "{action:final}" } |->
    CASE txt = "[1]" -> JsonOther
      [] txt = "{}" -> JsonObject("none", "missing", FALSE, FALSE, FALSE)
      [] txt = "{action:other}" -> JsonObject("other", "missing", FALSE, FALSE, FALSE)
      [] txt = "{action:tool,name:t,args}" -> JsonObject("tool", "valid", TRUE, FALSE, FALSE)
      [] txt = "{action:tool,name:t,args:{hits:$last_hits}}" ->
           JsonObject("tool", "valid", TRUE, FALSE, FALSE)
      [] txt = "{action:tool,name:t}" -> JsonObject("tool", "valid", FALSE, FALSE, FALSE)
      [] txt = "{action:tool,args}" -> JsonObject("tool", "missing", TRUE, FALSE, FALSE)
      [] txt = "{action:tool,name:1,args}" -> JsonObject("tool", "nonstring", TRUE, FALSE, FALSE)
      [] txt = "{action:final,answer,citations}" -> JsonObject("final", "missing", FALSE, TRUE, TRUE)
      [] txt = "{action:final}" -> JsonObject("final", "missing", FALSE, FALSE, FALSE) ]

\* The texts call_model may return: a JSON text or prose, bare, padded,
\* fenced with or without a language tag, fenced without a line break,
\* and two JSON texts in a row.
Bodies == DOMAIN JsonTexts \cup {"oops"}

ModelOutputs ==
  UNION { { <<b>>,
            <<Fence, "json", "\n", b, "\n", Fence>>,
            <<Fence, b, Fence>> } : b \in Bodies }
  \cup { <<>>,
         <<" ", "{action:final,answer,citations}", "\n">>,
         <<Fence, "\n", "{action:tool,name:t,args}">>,
         <<"{action:final}", "{action:final}">> }

\* _strip_fences
strip_fences(txt) ==
  IF txt = <<>> THEN txt
  ELSE LET s0 == Strip(txt)
           s1 == IF s0 # <<>> /\ Head(s0) = Fence
                 THEN LET first_nl == Find(s0, "\n", 0)
                          cut == IF first_nl # -1
                                 THEN Slice(s0, first_nl + 1, Len(s0))
                                 ELSE s0
                      IN  IF cut # <<>> /\ cut[Len(cut)] = Fence
                          THEN Slice(cut, 0, Len(cut) - 1)
                          ELSE cut
                 ELSE s0
       IN  Strip(s1)

\* json.loads: the value of a text that is exactly one JSON text.
Loads(s) == Len(s) = 1 /\ s[1] \in DOMAIN JsonTexts

ParseFailed == [ok |-> FALSE, obj |-> JsonOther]

\* A parse that lets any JSON value through.
parse_action_any_json(txt) ==
  LET s == strip_fences(txt)
  IN  IF ~Loads(s) THEN ParseFailed
      ELSE [ok |-> TRUE, obj |-> JsonTexts[s[1]]]

\* _parse_action: the object, or not ok for the PARSE_ERROR it raises.
parse_action(txt) ==
  LET s == strip_fences(txt)
  IN  IF ~Loads(s) THEN ParseFailed
      ELSE IF ~JsonTexts[s[1]].is_object THEN ParseFailed
      ELSE [ok |-> TRUE, obj |-> JsonTexts[s[1]]]

\* The "hits" entry of the args of the action is the placeholder
\* "$last_hits".
AsksLastHits(out) ==
  LET s == strip_fences(out)
  IN  Loads(s) /\ s[1] = "{action:tool,name:t,args:{hits:$last_hits}}"

\* No call_tool yet.
NotDispatched == [kind |-> "none", items |-> <<>>]

\* A substitution that forgets the last result.
substitute_last_hits_forgetful(asks, last) ==
  [dispatched |-> IF ~asks THEN Absent ELSE ListOf(<<>>),
   recorded |-> asks]

\* Lines 89-97 of run_react: the "hits" entry of the args call_tool gets,
\* and whether the action in `steps` still holds the placeholder.  The
\* entry is put into a copy of args, so the recorded action keeps it.
substitute_last_hits(asks, last) ==
  [dispatched |-> IF ~asks THEN Absent
                  ELSE IF last.hits.kind # "absent" THEN last.hits
                  ELSE ListOf(<<>>),
   recorded |-> asks]

\* The model returned text that parses to an object with this "action".
Emits(out, kinds) ==
  /\ parse_action(out).ok
  /\ parse_action(out).obj.action \in kinds

\* No run in progress (the state of this component while another is studied).
ReactIdle ==
  /\ question = <<>>
  /\ max_steps = 0
  /\ pc = "idle"
  /\ model_calls = 0
  /\ raw_text = <<>>
  /\ tool_calls = 0
  /\ steps = <<>>
  /\ seen_ids = {}
  /\ last_result = NoResult
  /\ tool_hits_arg = NotDispatched
  /\ outcome = NoOutcome

\* run_react has been entered: lines 73-76.
ReactStart ==
  /\ question \in Questions
  /\ max_steps \in 0..MaxStepsBound
  /\ pc = "await"
  /\ model_calls = 0
  /\ raw_text = <<>>
  /\ tool_calls = 0
  /\ steps = <<>>
  /\ seen_ids = {}
  /\ last_result = NoResult
  /\ tool_hits_arg = NotDispatched
  /\ outcome = NoOutcome

\* A loop that runs one iteration too many.
InLoop_one_more == pc = "await" /\ model_calls <= max_steps

\* The loop body may run: range(max_steps) is not exhausted.
InLoop == pc = "await" /\ model_calls < max_steps

\* call_model's text is not a JSON object: _parse_action raises before the
\* step is recorded.
ParseError ==
  /\ InLoop
  /\ \E out \in ModelOutputs :
       /\ ~parse_action(out).ok
       /\ raw_text' = out
  /\ model_calls' = model_calls + 1
  /\ pc' = "error"
  /\ outcome' = Raised("PARSE_ERROR")
  /\ UNCHANGED <<question, max_steps, tool_calls, steps, seen_ids, last_result, tool_hits_arg, exceptReact>>

\* A tool action without a usable name.
ToolNameError ==
  /\ InLoop
  /\ \E out \in ModelOutputs, u \in BOOLEAN :
       /\ Emits(out, {"tool"})
       /\ parse_action(out).obj.name # "valid"
       /\ u => parse_action(out).obj.has_args
       /\ raw_text' = out
       /\ steps' = Append(steps, Step(ToolAction(u)))
  /\ model_calls' = model_calls + 1
  /\ pc' = "error"
  /\ outcome' = Raised("TOOL_ACTION_ERROR")
  /\ UNCHANGED <<question, max_steps, tool_calls, seen_ids, last_result, tool_hits_arg, exceptReact>>

\* A tool action whose call_tool raises (UNKNOWN_TOOL, INVALID_ARG, ...).
ToolRaises ==
  /\ InLoop
  /\ \E out \in ModelOutputs, u \in BOOLEAN :
       /\ Emits(out, {"tool"})
       /\ parse_action(out).obj.name = "valid"
       /\ u = AsksLastHits(out)
       /\ raw_text' = out
       /\ LET sub == substitute_last_hits(u, last_result)
          IN  /\ tool_hits_arg' = sub.dispatched
              /\ steps' = Append(steps, Step(ToolAction(sub.recorded)))
  /\ model_calls' = model_calls + 1
  /\ tool_calls' = tool_calls + 1
  /\ pc' = "error"
  /\ outcome' = Raised("TOOL_ERROR")
  /\ UNCHANGED <<question, max_steps, seen_ids, last_result, exceptReact>>

\* A tool action whose call_tool returns result r.
ToolStep ==
  /\ InLoop
  /\ \E out \in ModelOutputs, u \in BOOLEAN, r \in ToolResults :
       /\ Emits(out, {"tool"})
       /\ parse_action(out).obj.name = "valid"
       /\ u = AsksLastHits(out)
       /\ raw_text' = out
       /\ LET sub == substitute_last_hits(u, last_result)
          IN  /\ tool_hits_arg' = sub.dispatched
              /\ steps' = Append(steps, Observed(ToolAction(sub.recorded), r))
       /\ seen_ids' = collect_seen_ids(r, seen_ids)
       /\ last_result' = r
  /\ model_calls' = model_calls + 1
  /\ tool_calls' = tool_calls + 1
  /\ UNCHANGED <<question, max_steps, pc, outcome, exceptReact>>

\* A final action: validated, then returned or refused.
FinalStep ==
  /\ InLoop
  /\ \E out \in ModelOutputs, a \in Answers, c \in CitationLists :
       /\ Emits(out, {"final"})
       /\ ~parse_action(out).obj.has_answer => a = <<>>
       /\ ~parse_action(out).obj.has_citations => c = <<>>
       /\ raw_text' = out
       /\ steps' = Append(steps, Step(FinalAction(a, c)))
       /\ LET verdict == validate_final(question, a, c, seen_ids)
          IN  IF verdict = "OK"
              THEN pc' = "done" /\ outcome' = Returned(a, c, steps')
              ELSE pc' = "error" /\ outcome' = Raised(verdict)
  /\ model_calls' = model_calls + 1
  /\ UNCHANGED <<question, max_steps, tool_calls, seen_ids, last_result, tool_hits_arg, exceptReact>>

\* An object whose "action" is neither "tool" nor "final".
InvalidAction ==
  /\ InLoop
  /\ \E out \in ModelOutputs :
       /\ Emits(out, {"other", "none"})
       /\ raw_text' = out
  /\ steps' = Append(steps, Step(OtherAction))
  /\ model_calls' = model_calls + 1
  /\ pc' = "error"
  /\ outcome' = Raised("INVALID_ACTION")
  /\ UNCHANGED <<question, max_steps, tool_calls, seen_ids, last_result, tool_hits_arg, exceptReact>>

\* The for loop ran out without a final action.
StepsExceeded ==
  /\ pc = "await"
  /\ model_calls >= max_steps
  /\ pc' = "error"
  /\ outcome' = Raised("MAX_STEPS_EXCEEDED")
  /\ UNCHANGED <<question, max_steps, model_calls, raw_text, tool_calls, steps,
                 seen_ids, last_result, tool_hits_arg, exceptReact>>

ReactNext ==
  \/ ParseError
  \/ ToolNameError
  \/ ToolRaises
  \/ ToolStep
  \/ FinalStep
  \/ InvalidAction
  \/ StepsExceeded


----------------------------------------------------------------------------
(* Claims about run_react and validate_final.                              *)

\* The string ids in the lists of one observed tool result.
StringIds(field) ==
  {field.items[i].v : i \in {k \in 1..Len(field.items) : field.items[k].isStr}}

\* All string ids in the hits and docs of every tool result received so far.
ObservedIds ==
  UNION {StringIds(steps[i].observation.hits)
           \cup StringIds(steps[i].observation.docs) :
         i \in {k \in 1..Len(steps) : steps[k].hasObs}}

Finished == pc \in {"done", "error"}

EndedWithFinal ==
  /\ Finished
  /\ steps # <<>>
  /\ steps[Len(steps)].action.kind = "final"

\* C1: a returned final answer carries no citation id, listed or inline,
\* that was absent from the hits/docs of every earlier tool result.
C1_ReturnedCitationsWereSeen ==
  outcome.kind = "return" =>
    (Range(outcome.citations) \cup Range(inline_citation_ids(outcome.answer)))
       \subseteq ObservedIds

\* C2: when the question asks for sources and the final action has neither
\* listed nor inline citations, the run raises GUARD_CITATION_REQUIRED,
\* however many tool steps came first.
C2_CitationRequired ==
  ( /\ EndedWithFinal
    /\ needs_citations(question)
    /\ steps[Len(steps)].action.citations = <<>>
    /\ inline_citation_ids(steps[Len(steps)].action.answer) = <<>> )
  => outcome = Raised("GUARD_CITATION_REQUIRED")

C2_Witness ==
  /\ EndedWithFinal
  /\ Len(steps) >= 2
  /\ seen_ids # {}
  /\ needs_citations(question)
  /\ steps[Len(steps)].action.answer # <<>>
  /\ outcome = Raised("GUARD_CITATION_REQUIRED")

AllStepsDispatched ==
  \A i \in 1..Len(steps) : steps[i].action.kind = "tool" /\ steps[i].hasObs

C3_Bounded ==
  /\ model_calls <= max_steps
  /\ tool_calls <= model_calls
  /\ (pc = "await" => ENABLED ReactNext)
  /\ ( (Finished /\ model_calls = max_steps /\ Len(steps) = max_steps
          /\ AllStepsDispatched)
       => outcome = Raised("MAX_STEPS_EXCEEDED") )
  /\ ( outcome = Raised("MAX_STEPS_EXCEEDED")
       => model_calls = max_steps /\ AllStepsDispatched )

C3_Progress ==
  /\ tool_calls' - tool_calls <= model_calls' - model_calls
  /\ (pc = "await" /\ pc' = "await") => model_calls' = model_calls + 1

\* C3: the run makes at most max_steps model calls, at most one tool
\* dispatch per model call, never blocks before it has ended, and ends with
\* MAX_STEPS_EXCEEDED exactly when all max_steps calls were dispatched tool
\* actions.
C3_TerminatesWithinMaxSteps == []C3_Bounded /\ [][C3_Progress]_vars

C3_Witness ==
  /\ max_steps = MaxStepsBound
  /\ tool_calls = max_steps
  /\ outcome = Raised("MAX_STEPS_EXCEEDED")

\* C4: the seen-id set is exactly the string ids of the hits and docs of the
\* tool results received so far, and no step removes an id from it.
C4_SeenIdsExactAndMonotone ==
  [](seen_ids = ObservedIds) /\ [][seen_ids \subseteq seen_ids']_vars

C4_Witness ==
  /\ Len(steps) >= 2
  /\ steps[1].observation.hits.kind = "notlist"
  /\ NonStrItem \in Range(steps[2].observation.docs.items)
  /\ seen_ids = {IdB}

----------------------------------------------------------------------------
(* agent/agent_gate.py: profiles, rules and candidates                     *)

\* A profile file as _run_base_checks reads it.  Times are whole
\* milliseconds; markers are the marker names of its processes in order.
Profile(exists, parsable, processes, startTime, endTime, markers) ==
  [exists |-> exists, parsable |-> parsable, process_count |-> processes,
   start |-> startTime, end |-> endTime, markers |-> markers]

Profiles ==
  { Profile(FALSE, FALSE, 0, 0, 0, <<>>),
    Profile(TRUE, FALSE, 0, 0, 0, <<>>),
    Profile(TRUE, TRUE, 0, 0, 1000, <<>>),
    Profile(TRUE, TRUE, 1, 500, 500, <<>>),
    Profile(TRUE, TRUE, 1, 0, 1000, <<>>),
    Profile(TRUE, TRUE, 1, 0, 1000, <<"jank", "gc", "jank">>) }

\* Base checks that accept any time range.
run_base_checks_any_duration(profile) ==
  IF ~profile.exists THEN "not_found"
  ELSE IF ~profile.parsable THEN "unparsable"
  ELSE IF profile.process_count = 0 THEN "no_processes"
  ELSE "ok"

\* _run_base_checks: "ok", or the BaseCheckError it raises.
run_base_checks(profile) ==
  IF ~profile.exists THEN "not_found"
  ELSE IF ~profile.parsable THEN "unparsable"
  ELSE IF profile.process_count = 0 THEN "no_processes"
  ELSE IF profile.end - profile.start <= 0 THEN "bad_duration"
  ELSE "ok"

\* A rule of options.analysis_rules.branches; score is in hundredths.
Rule(name, any, min_count, score) ==
  [name |-> name, any |-> any, min_count |-> min_count, score |-> score]

RuleLists ==
  { <<>>,
    << Rule("gc_pressure", {"gc"}, 2, 90), Rule("jank", {"jank"}, 1, 50) >>,
    << Rule("jank", {"jank"}, 2, 50), Rule("gc_pressure", {"gc"}, 1, 55),
       Rule("empty", {}, 1, 99) >>,
    << Rule("always", {}, 0, 99), Rule("jank", {"jank"}, 1, 50) >> }

SampleLimit == 20000

\* _marker_counts: markers named in `includes` among the first `limit` ones.
marker_counts(profile, includes, limit) ==
  IF includes = {} THEN 0
  ELSE Cardinality({i \in 1..Len(profile.markers) :
                      /\ profile.markers[i] \in includes
                      /\ (limit = 0 \/ i <= limit)})

Max(a, b) == IF a >= b THEN a ELSE b
Min(a, b) == IF a <= b THEN a ELSE b

\* The candidate of one matching rule.  The score base * (1 + min(cnt /
\* max(1, min_count), 5) * 0.05) is kept as the fraction num / den.
Candidate(rule, cnt) ==
  LET mc == Max(1, rule.min_count)
  IN  [branch |-> rule.name, count |-> cnt,
       reason |-> <<"matched markers count=", cnt>>,
       num |-> rule.score * (20 * mc + Min(cnt, 5 * mc)), den |-> 20 * mc]

\* _detector_marker_presence over rules[i..], in rule order.
RECURSIVE DetectFrom(_, _, _)
DetectFrom(profile, rules, i) ==
  IF i > Len(rules) THEN <<>>
  ELSE LET rule == rules[i]
           cnt  == marker_counts(profile, rule.any, SampleLimit)
       IN  (IF rule.any # {} /\ cnt >= rule.min_count
            THEN <<Candidate(rule, cnt)>>
            ELSE <<>>)
           \o DetectFrom(profile, rules, i + 1)

collect_candidates(profile, rules) == DetectFrom(profile, rules, 1)

ScoreLess(a, b) == a.num * b.den < b.num * a.den

DefaultReason == <<"no candidates; falling back to general", 0>>

NoCandidate ==
  [branch |-> "general", count |-> 0, reason |-> DefaultReason,
   num |-> 0, den |-> 1]

\* A choice that takes the first candidate whatever its score.
choose_branch_first(cands) ==
  IF cands = <<>> THEN NoCandidate ELSE cands[1]

\* _choose_branch: the first candidate of maximal score (sorted is stable),
\* or "general" when there is none.
choose_branch(cands) ==
  IF cands = <<>> THEN NoCandidate
  ELSE LET best == CHOOSE i \in 1..Len(cands) :
                     /\ \A j \in 1..Len(cands) : ~ScoreLess(cands[i], cands[j])
                     /\ \A j \in 1..(i - 1) : ScoreLess(cands[j], cands[i])
       IN  cands[best]

----------------------------------------------------------------------------
(* agent/agent_gate.py: tracers and the session budget                     *)

\* "plain" accepts a new `context` attribute; "slots" refuses setattr, so
\* its counters live in _GLOBAL_TRACER_STATE.
Tracers == {"plain", "slots"}
SettableContext(t) == t = "plain"

\* A tracer object made later in the process; it refuses setattr as well.
LaterTracers == {"slots2"}
AllTracers == Tracers \cup LaterTracers

\* The values id() takes: the addresses tracer objects are allocated at.
Addrs == {1, 2, 3}

\* A tracer object: not yet made, alive at an address, or freed.
TracerObj(life, addr) == [life |-> life, id |-> addr]

Live(t) == tracer_obj[t].life = "live"

Limits == {0, 1, 2}

\* A context dict: whether it exists, and its "branch_count" (0 when the
\* key is missing, as ctx.get("branch_count", 0) reads it).
NoDict == [present |-> FALSE, branch_count |-> 0]
Dict(n) == [present |-> TRUE, branch_count |-> n]

\* What a call was given and what it handed back: (branch, reason) when it
\* returned, nothing when it raised.
Last(profile, rules, branch, reason) ==
  [profile |-> profile, rules |-> rules, branch |-> branch, reason |-> reason]

NoLast == Last(Profile(FALSE, FALSE, 0, 0, 0, <<>>), <<>>, "", <<>>)

GateStart ==
  /\ tracer_obj = [t \in AllTracers |->
                     IF t = "plain" THEN TracerObj("live", 1)
                     ELSE IF t = "slots" THEN TracerObj("live", 2)
                     ELSE TracerObj("unborn", 0)]
  /\ tracer_context = [t \in AllTracers |-> NoDict]
  /\ global_state = [a \in Addrs |-> NoDict]
  /\ events = [t \in AllTracers |-> <<>>]
  /\ gate_calls = <<>>
  /\ gate_last = NoLast

GateIdle == GateStart

\* _getctx: where the tracer's counters live, "context" or "global".
getctx(t) ==
  IF tracer_context[t].present THEN "context"
  ELSE IF SettableContext(t) THEN "context"
  ELSE "global"

\* The branch_count the tracer's counters hold now.
BranchCount(t) ==
  IF getctx(t) = "context" THEN tracer_context[t].branch_count
  ELSE IF Live(t) THEN global_state[tracer_obj[t].id].branch_count
  ELSE 0

Event(name, count, limit, branch) ==
  [event |-> name, count |-> count, limit |-> limit, branch |-> branch]

\* The count _enforce_budget computes and stores.
next_count(t) == BranchCount(t) + 1

\* An _enforce_budget that raises one call too late.
over_budget_late(count, limit) == count > limit + 1

\* An _enforce_budget that raises only on the call that crosses the limit.
over_budget_exact(count, limit) == count = limit + 1

\* The test of _enforce_budget.
over_budget(count, limit) == count > limit

Call(t, limit, result, branch, count) ==
  [tracer |-> t, limit |-> limit, result |-> result, branch |-> branch,
   count |-> count]

CanCall == Len(gate_calls) < MaxGateCalls

\* ensure_general_analysis on a profile that fails the base checks.
GateBaseCheckFails ==
  /\ CanCall
  /\ \E t \in AllTracers, profile \in Profiles, limit \in Limits :
       /\ Live(t)
       /\ run_base_checks(profile) # "ok"
       /\ gate_calls' = Append(gate_calls,
                               Call(t, limit, "BaseCheckError", "", BranchCount(t)))
       /\ gate_last' = Last(profile, <<>>, "", <<>>)
  /\ UNCHANGED <<tracer_obj, tracer_context, global_state, events,
                 exceptGate>>

\* The effect of a call that passed the base checks, with its result.
GateDecision(t, profile, rules, limit, result) ==
  LET top   == choose_branch(collect_candidates(profile, rules))
      count == next_count(t)
      logged ==
        << Event("base_checks_ran", 0, 0, ""),
           Event("branch_candidates", 0, 0, ""),
           Event("branch_selected", 0, 0, top.branch),
           Event("branch_budget", count, limit, "") >>
        \o (IF over_budget(count, limit)
            THEN <<Event("branch_budget_exceeded", count, limit, "")>>
            ELSE <<>>)
  IN  /\ Live(t)
      /\ run_base_checks(profile) = "ok"
      /\ result = (IF over_budget(count, limit)
                   THEN "BranchBudgetExceeded" ELSE "returned")
      /\ IF getctx(t) = "context"
         THEN /\ tracer_context' = [tracer_context EXCEPT ![t] = Dict(count)]
              /\ UNCHANGED global_state
         ELSE /\ global_state' =
                [global_state EXCEPT ![tracer_obj[t].id] = Dict(count)]
              /\ UNCHANGED tracer_context
      /\ events' = [events EXCEPT ![t] = @ \o logged]
      /\ gate_calls' = Append(gate_calls,
                              Call(t, limit, result, top.branch, count))
      /\ gate_last' = (IF result = "returned"
                       THEN Last(profile, rules, top.branch, top.reason)
                       ELSE Last(profile, rules, "", <<>>))
      /\ UNCHANGED <<tracer_obj, exceptGate>>

\* ensure_general_analysis returns (branch, reason).
GateReturns ==
  /\ CanCall
  /\ \E t \in AllTracers, profile \in Profiles, rules \in RuleLists,
        limit \in Limits :
       GateDecision(t, profile, rules, limit, "returned")

\* ensure_general_analysis raises BranchBudgetExceeded.
GateBudgetExceeded ==
  /\ CanCall
  /\ \E t \in AllTracers, profile \in Profiles, rules \in RuleLists,
        limit \in Limits :
       GateDecision(t, profile, rules, limit, "BranchBudgetExceeded")

GateNext ==
  \/ GateBaseCheckFails
  \/ GateReturns
  \/ GateBudgetExceeded

\* The last reference to a tracer goes: the object is freed, and its
\* context with it.  _GLOBAL_TRACER_STATE keeps the entry under its id().
TracerFreed ==
  /\ \E t \in AllTracers :
       /\ Live(t)
       /\ tracer_obj' = [tracer_obj EXCEPT ![t].life = "freed"]
       /\ tracer_context' = [tracer_context EXCEPT ![t] = NoDict]
  /\ UNCHANGED <<global_state, events, gate_calls, gate_last, exceptGate>>

\* A tracer object is made: the allocator places it at any address no
\* living object has, one a freed object had included.
TracerMade ==
  /\ \E t \in AllTracers, a \in Addrs :
       /\ tracer_obj[t].life = "unborn"
       /\ \A u \in AllTracers : Live(u) => tracer_obj[u].id # a
       /\ tracer_obj' = [tracer_obj EXCEPT ![t] = TracerObj("live", a)]
  /\ UNCHANGED <<tracer_context, global_state, events, gate_calls, gate_last,
                 exceptGate>>

\* The gate in a process where tracer objects come and go.
TracersNext ==
  \/ GateBaseCheckFails
  \/ GateReturns
  \/ GateBudgetExceeded
  \/ TracerFreed
  \/ TracerMade

----------------------------------------------------------------------------
(* Claims about the branch budget.                                         *)

\* The calls on tracer t that passed the base checks, in order.
PassedCalls(t) ==
  SelectSeq(gate_calls,
            LAMBDA c : c.tracer = t /\ c.result # "BaseCheckError")

\* The counts of the branch_budget events logged on tracer t, in order.
BudgetCounts(t) ==
  LET ev == SelectSeq(events[t], LAMBDA e : e.event = "branch_budget")
  IN  [i \in 1..Len(ev) |-> ev[i].count]

SameLimit(calls, L) == \A k \in 1..Len(calls) : calls[k].limit = L

\* C5: per tracer, every call that passes the base checks raises
\* branch_count by exactly one; with a fixed limit L the first L such calls
\* return (logging counts 1..L) and call L+1 raises BranchBudgetExceeded.
C5_BudgetCountsEachDecision ==
  \A t \in Tracers :
    LET calls == PassedCalls(t)
    IN  /\ BranchCount(t) = Len(calls)
        /\ \A k \in 1..Len(calls) : calls[k].count = k
        /\ BudgetCounts(t) = [k \in 1..Len(calls) |-> k]
        /\ \A L \in Limits :
             SameLimit(calls, L) =>
               \A k \in 1..Len(calls) :
                  /\ (k <= L => calls[k].result = "returned")
                  /\ (k = L + 1 => calls[k].result = "BranchBudgetExceeded")

C5_Witness ==
  \E t \in Tracers :
    LET calls == PassedCalls(t)
    IN  /\ Len(calls) = 3
        /\ SameLimit(calls, 2)
        /\ calls[2].result = "returned"
        /\ calls[3].result = "BranchBudgetExceeded"
        /\ BudgetCounts(t) = <<1, 2, 3>>

C6_ExceededStays ==
  \A i \in 1..Len(gate_calls), j \in 1..Len(gate_calls) :
     ( /\ i < j
       /\ gate_calls[i].tracer = gate_calls[j].tracer
       /\ gate_calls[i].limit = gate_calls[j].limit
       /\ gate_calls[i].result = "BranchBudgetExceeded"
       /\ gate_calls[j].result # "BaseCheckError" )
     => gate_calls[j].result = "BranchBudgetExceeded"

C6_NeverDecreases == \A t \in Tracers : BranchCount(t)' >= BranchCount(t)

\* C6: after BranchBudgetExceeded on a tracer, every later call on it with
\* the same limit that passes the base checks raises it again, and no gate
\* operation lowers a tracer's branch_count.
C6_BudgetExceededIsFinal == []C6_ExceededStays /\ [][C6_NeverDecreases]_vars

C6_Witness ==
  /\ Len(gate_calls) = 3
  /\ \A k \in 1..3 : gate_calls[k].tracer = "slots" /\ gate_calls[k].limit = 1
  /\ gate_calls[1].result = "returned"
  /\ gate_calls[2].result = "BranchBudgetExceeded"
  /\ gate_calls[3].result = "BranchBudgetExceeded"

\* The number of branch_selected events logged on tracer t.
SelectedCount(t) ==
  Len(SelectSeq(events[t], LAMBDA e : e.event = "branch_selected"))

\* C25: on a tracer whose calls all use the limit L the gate logs at most L
\* branch_selected events: a call that raises BranchBudgetExceeded selects
\* and logs no branch.
C25_AtMostLimitSelections ==
  \A t \in Tracers, L \in Limits :
     SameLimit(PassedCalls(t), L) => SelectedCount(t) <= L

\* A step that is a call made with tracer t.
CallMadeWith(t) ==
  /\ Len(gate_calls') = Len(gate_calls) + 1
  /\ gate_calls'[Len(gate_calls')].tracer = t

\* A call with one tracer leaves the count of every other tracer alone.
C29_CallsLeaveOthersAlone ==
  \A t \in AllTracers, u \in AllTracers :
     (t # u /\ Live(u) /\ CallMadeWith(t)) => BranchCount(u)' = BranchCount(u)

\* A tracer no call was made with sees no branch counted.
C29_UnusedTracerSeesZero ==
  \A u \in AllTracers :
     (Live(u) /\ \A k \in 1..Len(gate_calls) : gate_calls[k].tracer # u)
       => BranchCount(u) = 0

\* C29: the branch budgets of different tracer objects are independent: a
\* call made with one tracer never changes the branch_count another tracer
\* object sees, tracers whose budget is kept in _GLOBAL_TRACER_STATE under
\* their id() included.
C29_BudgetsAreIndependent ==
  []C29_UnusedTracerSeesZero /\ [][C29_CallsLeaveOthersAlone]_vars

----------------------------------------------------------------------------
(* rag/manifest.py and rag/pipeline.py: the persisted index                *)

\* The tracked manifest fields, in the order assert_index_compatible
\* compares them.  Field values are kept as their repr.
TrackedKeys ==
  <<"embedder_name", "embedder_dim", "normalize", "distance", "index_impl">>

Embedders ==
  [embedder_name : {"dummy", "minilm"}, embedder_dim : {"8", "384"},
   normalize : {"True", "False"}]

Distances == {"cosine", "l2"}
IndexImpls == {"numpy", "faiss"}

\* get_index_contract(): what pipeline.search searches with.
IndexContract == [index_impl |-> "numpy", distance |-> "cosine"]

Settings(embedder, distance, index_impl) ==
  [embedder_name |-> embedder.embedder_name,
   embedder_dim |-> embedder.embedder_dim,
   normalize |-> embedder.normalize,
   distance |-> distance, index_impl |-> index_impl]

NoFiles == [present |-> FALSE, dim |-> "", n |-> 0]
Files(dim, n) == [present |-> TRUE, dim |-> dim, n |-> n]

\* _sha256_of_file: None for a missing file, else a digest of the content
\* (the content of vectors.npy is settled by its shape here).
sha256_of_file(files) ==
  IF files.present THEN <<"sha", files.dim, files.n>> ELSE <<"None", "", 0>>

\* SCHEMA_VERSION, the schema every manifest is written with.
SCHEMA_VERSION == 1

NoManifest ==
  [present |-> FALSE, schema_version |-> 0,
   fields |-> Settings([embedder_name |-> "", embedder_dim |-> "",
                        normalize |-> ""], "", ""),
   num_vectors |-> 0, vectors_sha256 |-> <<"None", "", 0>>]

NoIdxResult ==
  [op |-> "none", outcome |-> "", issues |-> <<>>,
   query |-> NoManifest.fields, count |-> 0]

IdxStart ==
  /\ index_files = NoFiles
  /\ manifest_file = NoManifest
  /\ idx_result = NoIdxResult

IdxIdle == IdxStart

\* build_all: ingest, embed with the current backend, save vectors.npy and
\* metas.jsonl.  It writes no manifest.
BuildAll ==
  /\ \E e \in Embedders, n \in 0..MaxVectors :
       /\ index_files' = Files(e.embedder_dim, n)
       /\ idx_result' = [NoIdxResult EXCEPT !.op = "build_all",
                                            !.outcome = "returned"]
  /\ UNCHANGED <<manifest_file, exceptIdx>>

\* write_index_manifest: the manifest replaces manifest.json in one rename.
\* The caller passes the number of vectors it has just saved.
WriteIndexManifest ==
  /\ \E e \in Embedders, d \in Distances, impl \in IndexImpls :
       /\ manifest_file' =
            [present |-> TRUE, schema_version |-> SCHEMA_VERSION,
             fields |-> Settings(e, d, impl),
             num_vectors |-> index_files.n,
             vectors_sha256 |-> sha256_of_file(index_files)]
       /\ idx_result' = [NoIdxResult EXCEPT !.op = "write_index_manifest",
                                            !.outcome = "returned"]
  /\ UNCHANGED <<index_files, exceptIdx>>

\* The cmp chain cut short at the first differing field.
RECURSIVE IssuesFirstOnly(_, _, _)
IssuesFirstOnly(mf, expected, i) ==
  IF i > Len(TrackedKeys) THEN <<>>
  ELSE LET key == TrackedKeys[i]
       IN  IF mf[key] # expected[key]
           THEN << <<key, mf[key], expected[key]>> >>
           ELSE IssuesFirstOnly(mf, expected, i + 1)

\* The cmp(...) calls of assert_index_compatible from the i-th on: the
\* (key, got, expected) triples appended to `issues`.
RECURSIVE IssuesFrom(_, _, _)
IssuesFrom(mf, expected, i) ==
  IF i > Len(TrackedKeys) THEN <<>>
  ELSE LET key == TrackedKeys[i]
       IN  (IF mf[key] # expected[key]
            THEN << <<key, mf[key], expected[key]>> >>
            ELSE <<>>)
           \o IssuesFrom(mf, expected, i + 1)

\* A comparison that reports only the first differing field.
compare_first_only(mf, expected) == IssuesFirstOnly(mf, expected, 1)

\* The five cmp(...) calls of assert_index_compatible.
compare_manifest(mf, expected) == IssuesFrom(mf, expected, 1)

\* assert_index_compatible: returns, or raises IndexCompatibilityError for
\* a missing manifest or with the list of differing fields.
AssertIndexCompatible ==
  /\ \E e \in Embedders, d \in Distances, impl \in IndexImpls :
       LET expected == Settings(e, d, impl)
           issues   == compare_manifest(manifest_file.fields, expected)
       IN  idx_result' =
             IF ~manifest_file.present
             THEN [NoIdxResult EXCEPT !.op = "assert_index_compatible",
                                      !.outcome = "manifest_missing",
                                      !.query = expected]
             ELSE IF issues # <<>>
             THEN [NoIdxResult EXCEPT !.op = "assert_index_compatible",
                                      !.outcome = "incompatible",
                                      !.issues = issues,
                                      !.query = expected]
             ELSE [NoIdxResult EXCEPT !.op = "assert_index_compatible",
                                      !.outcome = "returned",
                                      !.query = expected]
  /\ UNCHANGED <<index_files, manifest_file, exceptIdx>>

SearchKs == {0, 1, 5}

\* pipeline.search: [] without artifacts; else the saved vectors are loaded
\* and searched with the current backend's query vector.
PipelineSearch ==
  /\ \E e \in Embedders, k \in SearchKs :
       LET query == Settings(e, IndexContract.distance, IndexContract.index_impl)
       IN  idx_result' =
             IF ~index_files.present \/ index_files.n = 0
             THEN [NoIdxResult EXCEPT !.op = "search", !.outcome = "empty",
                                      !.query = query]
             ELSE IF index_files.dim # e.embedder_dim
             THEN [NoIdxResult EXCEPT !.op = "search",
                                      !.outcome = "shape_error",
                                      !.query = query]
             ELSE [NoIdxResult EXCEPT !.op = "search",
                                      !.outcome = IF k = 0 THEN "empty" ELSE "hits",
                                      !.query = query,
                                      !.count = Min(k, index_files.n)]
  /\ UNCHANGED <<index_files, manifest_file, exceptIdx>>

IdxNext ==
  \/ BuildAll
  \/ WriteIndexManifest
  \/ AssertIndexCompatible
  \/ PipelineSearch

----------------------------------------------------------------------------
(* Claims about the manifest guard.                                        *)

ManifestMatches(query) ==
  /\ manifest_file.present
  /\ \A i \in 1..Len(TrackedKeys) :
       manifest_file.fields[TrackedKeys[i]] = query[TrackedKeys[i]]

\* C7: a search over the persisted index yields hits only if the manifest
\* of the directory exists and matches the query-time settings.
C7_SearchBehindManifestCheck ==
  (idx_result.op = "search" /\ idx_result.outcome = "hits")
    => ManifestMatches(idx_result.query)

DifferingKeys(query) ==
  {TrackedKeys[i] : i \in {k \in 1..Len(TrackedKeys) :
      manifest_file.fields[TrackedKeys[k]] # query[TrackedKeys[k]]}}

\* C8: assert_index_compatible raises when the manifest is missing, raises
\* one error naming every differing tracked field (each once) when any
\* differs, and returns only when all five fields match.
C8_CompatibilityCheckIsComplete ==
  idx_result.op = "assert_index_compatible" =>
    /\ (~manifest_file.present => idx_result.outcome = "manifest_missing")
    /\ (idx_result.outcome = "returned" <=> ManifestMatches(idx_result.query))
    /\ (manifest_file.present /\ DifferingKeys(idx_result.query) # {}
          => /\ idx_result.outcome = "incompatible"
             /\ {idx_result.issues[i][1] : i \in 1..Len(idx_result.issues)}
                  = DifferingKeys(idx_result.query)
             /\ Len(idx_result.issues)
                  = Cardinality(DifferingKeys(idx_result.query)))

C8_Witness ==
  /\ idx_result.op = "assert_index_compatible"
  /\ idx_result.outcome = "incompatible"
  /\ Len(idx_result.issues) = 3
  /\ idx_result.issues[1][1] = "embedder_dim"
  /\ idx_result.issues[3][1] = "index_impl"

\* The manifest describes the vector artifact that is on disk now.
ManifestDescribesArtifact ==
  /\ manifest_file.schema_version = SCHEMA_VERSION
  /\ manifest_file.num_vectors = index_files.n
  /\ manifest_file.vectors_sha256 = sha256_of_file(index_files)

\* C21: assert_index_compatible returns only if, besides the five settings,
\* the persisted schema_version, num_vectors and vectors_sha256 match the
\* current schema version and the vector artifact on disk: a stale or
\* replaced vector file makes it raise.
C21_StaleArtifactIsFatal ==
  (idx_result.op = "assert_index_compatible"
     /\ idx_result.outcome = "returned")
    => ManifestDescribesArtifact

----------------------------------------------------------------------------
(* rag/summarizers/base.py and fallback.py                                 *)

\* The one-character strings U+2026 and U+2022.
Ellipsis == "ELLIPSIS"
Bullet == "BULLET"

CharsPerToken == 4
MinPerLine == 24
MaxPerLine == 140

char_budget(token_budget) ==
  IF token_budget <= 0 THEN 0 ELSE token_budget * CharsPerToken

safe_append_line(buf, line, limit) ==
  LET sep == IF buf = <<>> THEN <<>> ELSE <<"\n">>
  IN  IF limit = 0 THEN [buf |-> buf, ok |-> FALSE]
      ELSE IF Len(buf) + Len(sep) + Len(line) <= limit
           THEN [buf |-> buf \o sep \o line, ok |-> TRUE]
           ELSE [buf |-> buf, ok |-> FALSE]

\* text.split(): the maximal runs of non-space characters.
RECURSIVE SplitWords(_)
SplitWords(text) ==
  LET t == LStrip(text)
  IN  IF t = <<>> THEN <<>>
      ELSE LET spaces == {i \in 1..Len(t) : IsSpace(t[i])}
               stop   == IF spaces = {} THEN Len(t) + 1
                         ELSE CHOOSE i \in spaces : \A j \in spaces : i <= j
           IN  <<SubSeq(t, 1, stop - 1)>> \o SplitWords(SubSeq(t, stop, Len(t)))

\* " ".join(words)
RECURSIVE JoinWords(_)
JoinWords(words) ==
  IF words = <<>> THEN <<>>
  ELSE IF Len(words) = 1 THEN words[1]
  ELSE words[1] \o <<" ">> \o JoinWords(Tail(words))

clean_snippet(text, max_len) ==
  LET s == JoinWords(SplitWords(text))
  IN  IF Len(s) <= max_len THEN s
      ELSE Slice(s, 0, max_len - 1) \o <<Ellipsis>>

\* The line fallback_summarize renders for one hit in the given style.
HitLine(h, style, per_line) ==
  LET snippet == clean_snippet(h.text, per_line)
      cited   == snippet \o <<" ", "(">> \o h.id \o <<")">>
  IN  IF style = "abstract" THEN cited \o <<".">>
      ELSE IF style = "qa" THEN cited
      ELSE <<Bullet, " ">> \o cited

\* The for loop of fallback_summarize from hit i on: `cap` is the number of
\* hits the style takes at most (0: no cap), `count` those taken so far.
RECURSIVE AppendHits(_, _, _, _, _, _, _)
AppendHits(buf, hits, i, style, limit, cap, count) ==
  IF i > Len(hits) \/ (cap # 0 /\ count >= cap) THEN buf
  ELSE LET per_line == Max(MinPerLine, Min(MaxPerLine, limit \div 4))
           r == safe_append_line(buf, HitLine(hits[i], style, per_line), limit)
       IN  IF ~r.ok THEN buf
           ELSE AppendHits(r.buf, hits, i + 1, style, limit, cap, count + 1)

AbstractCap == 3
QaCap == 2

\* fallback_summarize: the summary and its citations.
fallback_summarize(hits, style, token_budget) ==
  LET limit == char_budget(token_budget)
  IN  IF limit <= 0 \/ hits = <<>>
      THEN [summary |-> <<>>, citations |-> <<>>]
      ELSE LET start == IF style = "qa"
                        THEN safe_append_line(<<>>, <<"A", "n", "s", "w", "e", "r", ":">>,
                                              limit).buf
                        ELSE <<>>
               cap == IF style = "abstract" THEN AbstractCap
                      ELSE IF style = "qa" THEN QaCap ELSE 0
               buf == AppendHits(start, hits, 1, style, limit, cap, 0)
           IN  [summary |-> buf, citations |-> extract_citations(buf)]

----------------------------------------------------------------------------
(* rag/summarizers/llm_adapter.py                                          *)

\* s.find(pat, from) for a pattern of several characters
FindSub(s, pat, from) ==
  LET at == {i \in from..(Len(s) - Len(pat)) :
               SubSeq(s, i + 1, i + Len(pat)) = pat}
  IN  IF at = {} THEN -1 ELSE CHOOSE i \in at : \A j \in at : i <= j

CiteOpen == <<"[", "[", "C", "I", "T", "E", ":">>
CiteClose == <<"]", "]">>

\* The while loop of the adapter from position i: [[CITE:ID]] becomes (ID).
RECURSIVE RewriteMarkers(_, _)
RewriteMarkers(raw, i) ==
  IF i >= Len(raw) THEN <<>>
  ELSE LET j == FindSub(raw, CiteOpen, i)
       IN  IF j = -1 THEN Slice(raw, i, Len(raw))
           ELSE LET k == FindSub(raw, CiteClose, j)
                IN  IF k = -1
                    THEN Slice(raw, i, j) \o Slice(raw, j, Len(raw))
                    ELSE Slice(raw, i, j) \o <<"(">>
                         \o Slice(raw, j + Len(CiteOpen), k) \o <<")">>
                         \o RewriteMarkers(raw, k + Len(CiteClose))

\* The summarizer make_llm_summarizer builds, applied to the reply `raw`.
llm_summarize(raw, token_budget) ==
  LET rewritten == RewriteMarkers(raw, 0)
      limit     == char_budget(token_budget)
      summary   == IF limit # 0 /\ Len(rewritten) > limit
                   THEN Slice(rewritten, 0, limit) ELSE rewritten
  IN  [summary |-> summary, citations |-> extract_citations(summary)]

----------------------------------------------------------------------------
(* rag/tools/context_summarize.py and the summarizer registry              *)

Hit(id, text) == [id |-> id, text |-> text]

ShortText == <<"x">>
SpacedText == <<" ", "y", " ", " ", "z", " ", "(", "q", ")">>
LongText ==
  <<"l", "o", "n", "g", " ", "t", "e", "x", "t", " ", "o", "f", " ", "m",
    "o", "r", "e", " ", "t", "h", "a", "n", " ", "2", "4", " ", "c", "h">>

Hits == {Hit(IdA, ShortText), Hit(IdB, SpacedText), Hit(IdC, LongText)}
HitLists == SeqsUpTo(Hits, MaxHits)

Styles == {"bullet", "abstract", "qa"}

Request(is_list, hits, style, token_budget) ==
  [hits_is_list |-> is_list, hits |-> hits, style |-> style,
   token_budget |-> token_budget]

\* Requests that pass the validation.  A registered summarizer is studied
\* on one hit list: what it returns is not derived from the hits.
FallbackRequests ==
  {Request(TRUE, h, st, tb) :
     h \in HitLists, st \in Styles, tb \in 0..MaxTokenBudget}
BackendRequests ==
  {Request(TRUE, <<Hit(IdA, ShortText)>>, "bullet", tb) :
     tb \in 0..MaxTokenBudget}

\* Requests the validation refuses.
InvalidRequests ==
  {Request(FALSE, <<>>, "bullet", 1), Request(TRUE, <<>>, "tldr", 1),
   Request(TRUE, <<>>, "bullet", -1)}

\* What the model behind the LLM adapter may reply.
LlmSegments ==
  { <<"x", " ">>, CiteOpen \o IdA \o CiteClose, CiteOpen,
    <<"(", "b", ")">>, CiteOpen \o <<" ">> \o IdA \o CiteClose }
LlmReplies == {Flatten(ss) : ss \in SeqsUpTo(LlmSegments, MaxLlmSegs)}

Cite(id, start, end) == [id |-> id, offset |-> <<start, end>>]

\* What some other registered summarizer may return: any text and any
\* citations, or a RuntimeError.
CustomReturns ==
  { [raises |-> TRUE, summary |-> <<>>, citations |-> <<>>],
    [raises |-> FALSE, summary |-> <<"a", "b", "(", "a", ")">>,
     citations |-> <<Cite(IdA, 3, 4)>>],
    [raises |-> FALSE, summary |-> <<"a", "b", "c", "d", "e", "f">>,
     citations |-> <<Cite(<<"z", "z">>, 0, 2), Cite(<<"f">>, 5, 6)>>],
    [raises |-> FALSE, summary |-> <<"a", "b", "c", "d", "e", "f">>,
     citations |-> <<Cite(IdA, 5, 9), Cite(IdA, -1, 1), Cite(IdA, 2, 2)>>] }

NoRequest == Request(TRUE, <<>>, "", 0)
NoResponse == [outcome |-> "none", summary |-> <<>>, citations |-> <<>>,
               by |-> ""]

SumStart ==
  /\ summarizer_impl = "none"
  /\ sum_request = NoRequest
  /\ sum_response = NoResponse

SumIdle == SumStart

\* register_summarizer_impl with the LLM adapter or with another callable.
RegisterSummarizerImpl ==
  /\ \E kind \in {"llm", "custom"} : summarizer_impl' = kind
  /\ UNCHANGED <<sum_request, sum_response, exceptSum>>

ClearSummarizerImpl ==
  /\ summarizer_impl' = "none"
  /\ UNCHANGED <<sum_request, sum_response, exceptSum>>

\* The validation at the top of context_summarize: "" or the error.
validate_request(req) ==
  IF ~req.hits_is_list THEN "INVALID_ARG"
  ELSE IF req.style \notin {"bullet", "abstract", "qa"} THEN "INVALID_ARG"
  ELSE IF req.token_budget < 0 THEN "INVALID_ARG"
  ELSE ""

\* The test context_summarize applies to each citation.
keep_citation(c, summary) ==
  /\ 0 <= c.offset[1]
  /\ c.offset[1] < c.offset[2]
  /\ c.offset[2] <= Len(summary)

\* The final cap and the citation filter of context_summarize.
Finalize(produced, token_budget, by) ==
  LET limit   == char_budget(token_budget)
      summary == IF limit # 0 /\ Len(produced.summary) > limit
                 THEN Slice(produced.summary, 0, limit)
                 ELSE produced.summary
  IN  [outcome |-> "returned", summary |-> summary,
       citations |-> SelectSeq(produced.citations,
                               LAMBDA c : keep_citation(c, summary)),
       by |-> by]

Rejected(code) ==
  [outcome |-> code, summary |-> <<>>, citations |-> <<>>, by |-> ""]

\* context_summarize refuses the request.
SummarizeInvalid ==
  /\ \E req \in InvalidRequests :
       /\ validate_request(req) # ""
       /\ sum_request' = req
       /\ sum_response' = Rejected(validate_request(req))
  /\ UNCHANGED <<summarizer_impl, exceptSum>>

\* context_summarize with nothing registered (get_summarizer_impl raises
\* RuntimeError), or with a registered callable that raises RuntimeError.
SummarizeWithFallback ==
  /\ \E req \in (IF summarizer_impl = "none" THEN FallbackRequests
                 ELSE BackendRequests) :
       /\ validate_request(req) = ""
       /\ \/ summarizer_impl = "none"
          \/ /\ summarizer_impl = "custom"
             /\ \E out \in CustomReturns : out.raises
       /\ sum_request' = req
       /\ sum_response' =
            Finalize(fallback_summarize(req.hits, req.style, req.token_budget),
                     req.token_budget, "fallback")
  /\ UNCHANGED <<summarizer_impl, exceptSum>>

\* context_summarize through the registered LLM adapter.
SummarizeWithLlm ==
  /\ summarizer_impl = "llm"
  /\ \E req \in BackendRequests, raw \in LlmReplies :
       /\ validate_request(req) = ""
       /\ sum_request' = req
       /\ sum_response' =
            Finalize(llm_summarize(raw, req.token_budget), req.token_budget, "llm")
  /\ UNCHANGED <<summarizer_impl, exceptSum>>

\* context_summarize through another registered summarizer.
SummarizeWithCustom ==
  /\ summarizer_impl = "custom"
  /\ \E req \in BackendRequests, out \in CustomReturns :
       /\ validate_request(req) = ""
       /\ ~out.raises
       /\ sum_request' = req
       /\ sum_response' =
            Finalize([summary |-> out.summary, citations |-> out.citations],
                     req.token_budget, "custom")
  /\ UNCHANGED <<summarizer_impl, exceptSum>>

SumNext ==
  \/ RegisterSummarizerImpl
  \/ ClearSummarizerImpl
  \/ SummarizeInvalid
  \/ SummarizeWithFallback
  \/ SummarizeWithLlm
  \/ SummarizeWithCustom

----------------------------------------------------------------------------
(* Claims about context_summarize.                                         *)

\* C9: whatever summarizer is active, a returned summary is no longer than
\* token_budget * 4 characters.
C9_SummaryWithinBudget ==
  sum_response.outcome = "returned" =>
    Len(sum_response.summary) <= sum_request.token_budget * 4

\* C10: whatever summarizer is active, the offset of every returned
\* citation slices exactly its id out of the returned summary.
C10_CitationOffsetsSliceIds ==
  sum_response.outcome = "returned" =>
    \A i \in 1..Len(sum_response.citations) :
       LET c == sum_response.citations[i]
       IN  Slice(sum_response.summary, c.offset[1], c.offset[2]) = c.id

\* A step that is a call of context_summarize.
SummarizeCalled ==
  /\ summarizer_impl' = summarizer_impl
  /\ <<sum_request, sum_response>>' # <<sum_request, sum_response>>

\* C27: context_summarize makes its result with the registered summarizer
\* whenever one is registered at the time of the call, and with the
\* fallback only when none is registered (after a register and a clear as
\* well).
C27_FallbackOnlyWhenNoneRegistered ==
  [][ (SummarizeCalled /\ sum_response'.outcome = "returned") =>
        (sum_response'.by = "fallback" <=> summarizer_impl = "none") ]_vars

\* The hits rendered in a fallback summary: its lines, less the "Answer:"
\* header of the qa style.
RenderedHits ==
  LET summary == sum_response.summary
      lines   == IF summary = <<>> THEN 0
                 ELSE 1 + Cardinality({i \in 1..Len(summary) : summary[i] = "\n"})
      header  == IF sum_request.style = "qa" /\ sum_request.hits # <<>>
                    /\ char_budget(sum_request.token_budget) >= 7
                 THEN 1 ELSE 0
  IN  lines - header

\* C30: the citations of the fallback summarizer are those of the hits it
\* rendered: the rendered hits are the first n of the input hits (n at most
\* 3 for abstract, at most 2 for qa), there is one citation per rendered
\* hit, and the id of each citation is the id of its hit.
C30_FallbackCitesRenderedHits ==
  (sum_response.outcome = "returned" /\ sum_response.by = "fallback") =>
    LET n == RenderedHits
    IN  /\ n <= Len(sum_request.hits)
        /\ sum_request.style = "abstract" => n <= AbstractCap
        /\ sum_request.style = "qa" => n <= QaCap
        /\ Len(sum_response.citations) = n
        /\ \A i \in 1..n : sum_response.citations[i].id = sum_request.hits[i].id

----------------------------------------------------------------------------
(* rag/index.py: NumpyIndex                                                *)

\* The characters the model uses, in code point order: Python compares
\* strings code point by code point.
Alphabet ==
  <<" ", "#", "-", "1", "2", "C", "G", "a", "b", "c", "g", "j", "k", "n", "x">>

CharCode(ch) == CHOOSE i \in 1..Len(Alphabet) : Alphabet[i] = ch

\* s < t of Python strings
RECURSIVE StrLess(_, _)
StrLess(s, t) ==
  IF t = <<>> THEN FALSE
  ELSE IF s = <<>> THEN TRUE
  ELSE IF Head(s) = Head(t) THEN StrLess(Tail(s), Tail(t))
  ELSE CharCode(Head(s)) < CharCode(Head(t))

\* seq[:k] of Python, k of either sign
SliceTo(seq, k) ==
  IF k >= 0 THEN Slice(seq, 0, k) ELSE Slice(seq, 0, Max(Len(seq) + k, 0))

Sign(x) == IF x > 0 THEN 1 ELSE IF x < 0 THEN -1 ELSE 0

\* The vectors handed to the index: axis-aligned, of dimension 2 or 1.
Vectors == {<<1, 0>>, <<2, 0>>, <<0, 1>>, <<-1, 0>>, <<1>>}

\* _normalize: v / (|v| + 1e-12).  For an axis-aligned float32 vector the
\* quotient of its non-zero component is exactly 1.0 or -1.0.
normalize(v) == [i \in 1..Len(v) |-> Sign(v[i])]

\* One row of a matrix product: the inner product of two vectors.
RECURSIVE Dot(_, _)
Dot(u, v) ==
  IF u = <<>> THEN 0 ELSE Head(u) * Head(v) + Dot(Tail(u), Tail(v))

\* A hit: NumpyIndex reports the chunk id of the meta as the hit's id.
SearchHit(id, score, text) == [id |-> id, score |-> score, text |-> text]

NoSearchResult == [op |-> "none", outcome |-> "none", hits |-> <<>>]

SearchResult(op, how, hits) ==
  [op |-> op, outcome |-> how, hits |-> hits]

\* The orders of the n rows.
Orders(n) ==
  {f \in [1..n -> 1..n] : \A i, j \in 1..n : i # j => f[i] # f[j]}

\* np.argsort(-sims): an order of the rows by descending similarity.  The
\* default sort kind is not stable, so rows of equal similarity come in
\* any order.
argsort_desc(sims) ==
  {f \in Orders(Len(sims)) :
     \A i \in 1..(Len(sims) - 1) : sims[f[i]] >= sims[f[i + 1]]}

\* The dimensions of the vectors the model uses.
Dims == {1, 2}

\* None where a dimension is expected: dim before the first add unless the
\* constructor was given one, and the width of _vecs while _vecs is None.
NoDim == 0

\* A 2-D array [n, d]: its width d and its n rows (n may be 0).
Batch(d, rows) == [d |-> d, rows |-> rows]

Batches ==
  {b \in [d : Dims, rows : SeqsUpTo(Vectors, MaxRows)] :
     \A i \in 1..Len(b.rows) : Len(b.rows[i]) = b.d}

MetaLists == SeqsUpTo({IdA, IdB}, MaxRows)

\* A NumpyIndex: dim, the width and the rows of _vecs, and _metas.
Index(dim, width, rows, metas) ==
  [dim |-> dim, width |-> width, rows |-> rows, metas |-> metas]

\* NumpyIndex(dim): no vectors yet.
NewIndex(dim) == Index(dim, NoDim, <<>>, <<>>)

\* NumpyIndex.add of a 2-D array: the metas must match the rows; the first
\* batch sets dim and _vecs, a later one must have the width of _vecs.
numpy_add(ix, vectors, metas) ==
  IF Len(metas) # Len(vectors.rows) THEN [raised |-> TRUE, ix |-> ix]
  ELSE IF ix.width = NoDim
  THEN [raised |-> FALSE,
        ix |-> Index(vectors.d, vectors.d,
                     [i \in 1..Len(vectors.rows) |->
                        normalize(vectors.rows[i])],
                     ix.metas \o metas)]
  ELSE IF vectors.d # ix.width THEN [raised |-> TRUE, ix |-> ix]
  ELSE [raised |-> FALSE,
        ix |-> Index(ix.dim, ix.width,
                     ix.rows \o [i \in 1..Len(vectors.rows) |->
                                   normalize(vectors.rows[i])],
                     ix.metas \o metas)]

\* The shape of an add call: the width and the row count of the array, and
\* the number of metas.  ndim is 2 for a matrix.
Added(ndim, d, n, m) == [ndim |-> ndim, d |-> d, n |-> n, m |-> m]
NoAdd == Added(0, 0, 0, 0)

\* NumpyIndex(dim): a fresh index replaces the current one.
NumpyNew ==
  /\ \E dim \in {NoDim} \cup Dims :
       /\ np_dim' = dim
       /\ np_width' = NoDim
       /\ np_rows' = <<>>
       /\ np_metas' = <<>>
  /\ np_added' = NoAdd
  /\ search_result' = SearchResult("new", "returned", <<>>)
  /\ UNCHANGED <<kw_corpus, exceptSearch>>

\* NumpyIndex.add of a 2-D array with a list of metas.
NumpyAdd ==
  /\ \E vectors \in Batches, metas \in MetaLists :
       LET r == numpy_add(Index(np_dim, np_width, np_rows, np_metas),
                          vectors, metas)
       IN  /\ Len(r.ix.rows) <= MaxRows
           /\ np_dim' = r.ix.dim
           /\ np_width' = r.ix.width
           /\ np_rows' = r.ix.rows
           /\ np_metas' = r.ix.metas
           /\ np_added' = Added(2, vectors.d, Len(vectors.rows), Len(metas))
           /\ search_result' =
                SearchResult("add", IF r.raised THEN "ValueError"
                                    ELSE "returned", <<>>)
  /\ UNCHANGED <<kw_corpus, exceptSearch>>

\* NumpyIndex.add refuses an array that is not 2-D: a single vector.
NumpyAddRefused ==
  /\ \E v \in Vectors, metas \in MetaLists :
       np_added' = Added(1, Len(v), 1, Len(metas))
  /\ search_result' = SearchResult("add", "ValueError", <<>>)
  /\ UNCHANGED <<npIndex, kw_corpus, exceptSearch>>

NumpyKs == {-1, 0, 1, 5}

\* NumpyIndex.search(query_vec, k)
NumpySearch ==
  /\ \E qv \in Vectors, k \in NumpyKs :
       IF np_width = NoDim \/ np_metas = <<>>
       THEN search_result' = SearchResult("numpy_search", "returned", <<>>)
       ELSE IF Len(qv) # np_width
       THEN search_result' = SearchResult("numpy_search", "ValueError", <<>>)
       ELSE LET q    == normalize(qv)
                sims == [i \in 1..Len(np_rows) |-> Dot(np_rows[i], q)]
            IN  \E order \in argsort_desc(sims) :
                  LET idx == SliceTo(order, k)
                  IN  search_result' =
                        SearchResult("numpy_search", "returned",
                          [i \in 1..Len(idx) |->
                             SearchHit(np_metas[idx[i]], sims[idx[i]],
                                       <<>>)])
  /\ np_added' = NoAdd
  /\ UNCHANGED <<npIndex, kw_corpus, exceptSearch>>

----------------------------------------------------------------------------
(* app/bootstrap.py: the keyword search_impl                               *)

\* str.lower(), character by character
lower_char(ch) == IF ch = "G" THEN "g" ELSE IF ch = "C" THEN "c" ELSE ch
str_lower(s) == [i \in 1..Len(s) |-> lower_char(s[i])]

\* ch.isalnum()
isalnum(ch) == ch \notin {" ", "#", "-"}

\* _tokenize: lower case, every other character a blank, split
tokenize(s) ==
  SplitWords([i \in 1..Len(s) |->
                IF isalnum(lower_char(s[i])) THEN lower_char(s[i]) ELSE " "])

\* pat in s
Contains(s, pat) == FindSub(s, pat, 0) # -1

\* A chunk of chunks.jsonl: its id ("" when missing), its text (or None) and
\* the "kind" entry of its meta ("None" when missing, as str(meta.get(k))
\* renders it).
Chunk(id, has_text, text, kind) ==
  [id |-> id, has_text |-> has_text, text |-> text, kind |-> kind]

ChunkB == Chunk(IdB, TRUE, <<"g", "c">>, "doc")
ChunkA == Chunk(IdA, TRUE, <<"g", "c">>, "doc")
ChunkC == Chunk(IdC, TRUE, <<"g", "c", "x", " ", "G", "C">>, "src")
ChunkA1 == Chunk(<<"a", "#", "1">>, TRUE, <<"g", "c", "x">>, "None")
ChunkNoId == Chunk(<<>>, TRUE, <<"g", "c">>, "doc")
ChunkNoText == Chunk(<<"k">>, FALSE, <<>>, "doc")

ChunkLists ==
  { <<>>,
    <<ChunkB, ChunkA, ChunkC>>,
    <<ChunkC, ChunkA1, ChunkB, ChunkNoId, ChunkNoText>>,
    <<ChunkA1, ChunkB, ChunkA, ChunkA1>> }

\* The corpus _make_search_impl_from_chunks keeps: chunks with an id and a
\* text.
RECURSIVE make_corpus(_)
make_corpus(chunks) ==
  IF chunks = <<>> THEN <<>>
  ELSE (IF Head(chunks).id # <<>> /\ Head(chunks).has_text
        THEN <<Head(chunks)>> ELSE <<>>) \o make_corpus(Tail(chunks))

\* Queries of at most two tokens: a score is then a sum of at most two
\* terms, and equal sums are equal floats.
Queries ==
  { <<"g", "c">>, <<"G", "C", "-", "x">>, <<"j", "a", "n", "k">>, <<" ">> }

\* _score, in tenths: 1.0 for a whole-word match, 0.1 for a substring
RECURSIVE ScoreTokens(_, _)
ScoreTokens(q_tokens, hay) ==
  IF q_tokens = <<>> THEN 0
  ELSE LET qt == Head(q_tokens)
       IN  (IF Contains(<<" ">> \o hay \o <<" ">>, <<" ">> \o qt \o <<" ">>)
            THEN 10
            ELSE IF Contains(hay, qt) THEN 1 ELSE 0)
           + ScoreTokens(Tail(q_tokens), hay)

score(query, item) == ScoreTokens(tokenize(query), str_lower(item.text))

\* filters: none, or one required value of meta["kind"]
NoFilter == "no filter"
Filters == {NoFilter, "doc", "None"}
passes_filters(item, filters) == filters = NoFilter \/ item.kind = filters

\* The sort key (-score, id): a comes strictly before b.
KeyLess(a, b) ==
  a.score > b.score \/ (a.score = b.score /\ StrLess(a.id, b.id))

\* list.sort is stable: an item goes behind the items that are not after it.
RECURSIVE InsertSorted(_, _)
InsertSorted(x, sorted) ==
  IF sorted = <<>> THEN <<x>>
  ELSE IF KeyLess(x, Head(sorted)) THEN <<x>> \o sorted
  ELSE <<Head(sorted)>> \o InsertSorted(x, Tail(sorted))

RECURSIVE SortScored(_)
SortScored(scored) ==
  IF scored = <<>> THEN <<>>
  ELSE InsertSorted(scored[Len(scored)],
                    SortScored(SubSeq(scored, 1, Len(scored) - 1)))

\* The loop of search_impl over the corpus: the filtered items that score.
RECURSIVE Scored(_, _, _)
Scored(corpus, query, filters) ==
  IF corpus = <<>> THEN <<>>
  ELSE LET item == Head(corpus)
           sc   == score(query, item)
       IN  (IF passes_filters(item, filters) /\ sc > 0
            THEN <<SearchHit(item.id, sc, item.text)>> ELSE <<>>)
           \o Scored(Tail(corpus), query, filters)

\* search_impl(query, k, filters, section_hard_limit, reranker)
search_impl(corpus, query, k, filters, section_hard_limit) ==
  LET top == Slice(SortScored(Scored(corpus, query, filters)), 0, Max(1, k))
  IN  [i \in 1..Len(top) |->
         SearchHit(top[i].id, top[i].score,
                   IF section_hard_limit > 0
                   THEN Slice(top[i].text, 0, section_hard_limit)
                   ELSE top[i].text)]

NotRegistered == <<"not registered">>

\* init_rag_from_config: register the search_impl made from the chunks.
RegisterSearchImpl ==
  /\ \E chunks \in ChunkLists : kw_corpus' = make_corpus(chunks)
  /\ search_result' = SearchResult("register", "returned", <<>>)
  /\ np_added' = NoAdd
  /\ UNCHANGED <<npIndex, exceptSearch>>

KeywordKs == {0, 1, 5}
HardLimits == {0, 2}

\* The registered search_impl is called.
KeywordSearch ==
  /\ kw_corpus # NotRegistered
  /\ \E query \in Queries, k \in KeywordKs, filters \in Filters,
        limit \in HardLimits :
       search_result' =
         SearchResult("keyword_search", "returned",
                      search_impl(kw_corpus, query, k, filters, limit))
  /\ np_added' = NoAdd
  /\ UNCHANGED <<npIndex, kw_corpus, exceptSearch>>

SearchStart ==
  /\ np_dim = NoDim
  /\ np_width = NoDim
  /\ np_rows = <<>>
  /\ np_metas = <<>>
  /\ np_added = NoAdd
  /\ kw_corpus = NotRegistered
  /\ search_result = NoSearchResult

SearchIdle == SearchStart

SearchNext ==
  \/ NumpyNew
  \/ NumpyAdd
  \/ NumpyAddRefused
  \/ NumpySearch
  \/ RegisterSearchImpl
  \/ KeywordSearch

----------------------------------------------------------------------------
(* Claims about search.                                                    *)

\* hits are in descending score order, equal scores in ascending id order
Ranked(hits) ==
  \A i, j \in 1..Len(hits) :
     i < j => /\ hits[i].score >= hits[j].score
              /\ hits[i].score = hits[j].score => ~StrLess(hits[j].id, hits[i].id)

\* C11: the hits of every search, by NumpyIndex.search and by the keyword
\* search_impl that bootstrap registers, are sorted by score descending and,
\* where scores are equal, by id ascending.
C11_HitsRankedByScoreThenId ==
  (search_result.op \in {"numpy_search", "keyword_search"}
     /\ search_result.outcome = "returned")
  => Ranked(search_result.hits)

\* The dimension an index is held to: the one given at construction or
\* set by an earlier add.
FixedDim == np_dim

\* The add call of a step is one the claim wants refused.
MismatchedAdd ==
  \/ np_added'.m # np_added'.n
  \/ (FixedDim # NoDim /\ np_added'.d # FixedDim)

\* C22: the index always holds as many vectors as metas, all of one
\* dimension; an add whose metas do not match its vectors in number, or
\* whose vectors are not of the dimension fixed at construction or by an
\* earlier add, raises ValueError and leaves the index as it was.
C22_AddKeepsIndexConsistent ==
  [][ /\ Len(np_rows') = Len(np_metas')
      /\ \A i \in 1..Len(np_rows') : Len(np_rows'[i]) = np_width'
      /\ (search_result'.op = "add" /\ np_added'.ndim = 2 /\ MismatchedAdd)
           => /\ search_result'.outcome = "ValueError"
              /\ UNCHANGED npIndex ]_vars

\* What NumpyIndex.add does keep: vectors and metas agree in number, the
\* vectors are all of the width of _vecs, and dim is that width.
NumpyIndexConsistent ==
  /\ Len(np_rows) = Len(np_metas)
  /\ \A i \in 1..Len(np_rows) : Len(np_rows[i]) = np_width
  /\ np_width # NoDim => np_dim = np_width

----------------------------------------------------------------------------
(* app/bootstrap.py: the docs impl; rag/tools/get_docs_by_id.py            *)

\* A line of chunks.jsonl ("" for a missing id or parent_id) and a line of
\* parents.jsonl.
ChunkLine(id, parent_id, text) ==
  [id |-> id, parent_id |-> parent_id, text |-> text]
ParentLine(id, text) == [id |-> id, text |-> text]

\* A stored or returned document.
Doc(id, text) == [id |-> id, text |-> text]

DocP == <<"p">>
DocP1 == <<"p", "#", "1">>
DocA1 == <<"a", "#", "1">>
DocP2 == <<"p", "#", "2">>
DocH1 == <<"#", "1">>
DocZ == <<"z", "z">>
Blank == <<" ">>

\* The artifacts bootstrap may load: chunks.jsonl and parents.jsonl.
Artifacts ==
  { [chunks |-> <<>>, parents |-> <<>>],
    [chunks |-> << ChunkLine(DocP1, <<>>, <<"c", "1">>),
                   ChunkLine(IdA, <<>>, <<"c", "a">>),
                   ChunkLine(DocA1, <<>>, <<"c", "x">>) >>,
     parents |-> <<>>],
    [chunks |-> << ChunkLine(IdA, DocP, <<"c", "a">>),
                   ChunkLine(DocP1, DocP, <<"c", "1">>) >>,
     parents |-> << ParentLine(IdA, <<"P", "A">>),
                    ParentLine(DocP, <<"P", "P">>) >>],
    [chunks |-> << ChunkLine(DocP1, <<>>, <<"c", "1">>),
                   ChunkLine(DocA1, DocZ, <<"c", "x">>),
                   ChunkLine(<<>>, DocP, <<"c", "0">>) >>,
     parents |-> << ParentLine(DocP, <<"P", "P">>),
                    ParentLine(<<>>, <<"P", "0">>) >>],
    [chunks |-> << ChunkLine(DocH1, <<>>, <<"c", "h">>),
                   ChunkLine(IdA, <<>>, <<"c", "a">>),
                   ChunkLine(IdA, <<>>, <<"c", "b">>) >>,
     parents |-> <<>>] }

\* cid.split("#", 1)[0]
Prefix(cid) ==
  IF Find(cid, "#", 0) = -1 THEN cid ELSE Slice(cid, 0, Find(cid, "#", 0))

\* The dict built by assigning d[key(x)] = val(x) for the lines with an id,
\* in order: a later line replaces an earlier one.
LastWithId(lines, id) ==
  lines[CHOOSE i \in 1..Len(lines) :
          /\ lines[i].id = id
          /\ \A j \in (i + 1)..Len(lines) : lines[j].id # id]

IdsOf(lines) == {lines[i].id : i \in 1..Len(lines)} \ {<<>>}

\* The chunks of one prefix group, in file order.
RECURSIVE Group(_, _)
Group(chunks, pid) ==
  IF chunks = <<>> THEN <<>>
  ELSE (IF Head(chunks).id # <<>> /\ Prefix(Head(chunks).id) = pid
        THEN <<Head(chunks)>> ELSE <<>>) \o Group(Tail(chunks), pid)

PartLimit == 128
ParentLimit == 512

\* The text of a synthesized parent.
synth_text(group) ==
  Slice(JoinWords([i \in 1..Len(group) |-> Slice(group[i].text, 0, PartLimit)]),
        0, ParentLimit)

\* _make_docs_impl: parent_map, chunk_map and parent_of.
make_docs_impl(chunks, parents) ==
  LET given == [id \in IdsOf(parents) |->
                  Doc(id, LastWithId(parents, id).text)]
      synth == [pid \in {Prefix(id) : id \in IdsOf(chunks)} |->
                  Doc(pid, synth_text(Group(chunks, pid)))]
  IN  [parent_map |-> IF IdsOf(parents) # {} THEN given ELSE synth,
       chunk_map  |-> [id \in IdsOf(chunks) |->
                         Doc(id, LastWithId(chunks, id).text)],
       parent_of  |-> [id \in IdsOf(chunks) |->
                         LET c == LastWithId(chunks, id)
                         IN  IF c.parent_id # <<>> THEN c.parent_id
                             ELSE Prefix(id)]]

IsChunk(store, i) == i \in DOMAIN store.chunk_map
IsParent(store, i) == i \in DOMAIN store.parent_map

\* impl, return_kind == "chunk"
RECURSIVE ResolveChunks(_, _)
ResolveChunks(store, ids) ==
  IF ids = <<>> THEN <<>>
  ELSE (IF IsChunk(store, Head(ids)) THEN <<store.chunk_map[Head(ids)]>>
        ELSE IF IsParent(store, Head(ids)) THEN <<store.parent_map[Head(ids)]>>
        ELSE <<>>) \o ResolveChunks(store, Tail(ids))

\* A lookup that tries the id as a parent first.
parent_id_of_parent_first(store, i) ==
  IF IsParent(store, i) THEN i
  ELSE IF IsChunk(store, i) THEN store.parent_of[i] ELSE <<>>

\* A lookup that falls back to the prefix of an id that is no chunk.
parent_id_of_prefix(store, i) ==
  IF IsChunk(store, i) THEN store.parent_of[i] ELSE Prefix(i)

\* impl, return_kind == "parent": the parent id an input id stands for
\* (<<>> for None), parent_of.get(i, i if i in parent_map else None).
parent_id_of(store, i) ==
  IF IsChunk(store, i) THEN store.parent_of[i]
  ELSE IF IsParent(store, i) THEN i ELSE <<>>

\* The loop `for i in ids` of the parent mode: the distinct parent ids in
\* order of first appearance.
RECURSIVE ParentOrder(_, _, _)
ParentOrder(store, ids, seen) ==
  IF ids = <<>> THEN <<>>
  ELSE LET pid == parent_id_of(store, Head(ids))
       IN  IF pid # <<>> /\ pid \notin seen
           THEN <<pid>> \o ParentOrder(store, Tail(ids), seen \cup {pid})
           ELSE ParentOrder(store, Tail(ids), seen)

\* The loop `for pid in order`: the parents that exist.
RECURSIVE ExistingParents(_, _)
ExistingParents(store, order) ==
  IF order = <<>> THEN <<>>
  ELSE (IF IsParent(store, Head(order))
        THEN <<store.parent_map[Head(order)]>> ELSE <<>>)
       \o ExistingParents(store, Tail(order))

ResolveParents(store, ids) ==
  ExistingParents(store, ParentOrder(store, ids, {}))

\* impl, return_kind == "both", without the seen_ids test on the parent.
RECURSIVE ResolveBoth_repeat_parent(_, _, _)
ResolveBoth_repeat_parent(store, ids, emitted) ==
  IF ids = <<>> THEN <<>>
  ELSE LET i == Head(ids)
       IN  IF IsChunk(store, i)
           THEN LET chunk  == IF i \notin emitted
                              THEN <<store.chunk_map[i]>> ELSE <<>>
                    pid    == store.parent_of[i]
                    parent == IF pid # <<>> /\ IsParent(store, pid)
                              THEN <<store.parent_map[pid]>> ELSE <<>>
                IN  chunk \o parent
                    \o ResolveBoth_repeat_parent(store, Tail(ids),
                                                 emitted \cup {i})
           ELSE IF IsParent(store, i) /\ i \notin emitted
           THEN <<store.parent_map[i]>>
                \o ResolveBoth_repeat_parent(store, Tail(ids),
                                             emitted \cup {i})
           ELSE ResolveBoth_repeat_parent(store, Tail(ids), emitted)

\* impl, return_kind == "both"
RECURSIVE ResolveBoth(_, _, _)
ResolveBoth(store, ids, emitted) ==
  IF ids = <<>> THEN <<>>
  ELSE LET i == Head(ids)
       IN  IF IsChunk(store, i)
           THEN LET chunk  == IF i \notin emitted
                              THEN <<store.chunk_map[i]>> ELSE <<>>
                    seen1  == emitted \cup {i}
                    pid    == store.parent_of[i]
                    parent == IF pid # <<>> /\ IsParent(store, pid)
                                 /\ pid \notin seen1
                              THEN <<store.parent_map[pid]>> ELSE <<>>
                    seen2  == IF parent # <<>> THEN seen1 \cup {pid} ELSE seen1
                IN  chunk \o parent \o ResolveBoth(store, Tail(ids), seen2)
           ELSE IF IsParent(store, i) /\ i \notin emitted
           THEN <<store.parent_map[i]>>
                \o ResolveBoth(store, Tail(ids), emitted \cup {i})
           ELSE ResolveBoth(store, Tail(ids), emitted)

\* impl(ids, return_kind): any kind other than chunk and parent is "both".
docs_impl(store, ids, return_kind) ==
  IF return_kind = "chunk" THEN ResolveChunks(store, ids)
  ELSE IF return_kind = "parent" THEN ResolveParents(store, ids)
  ELSE ResolveBoth(store, ids, {})

\* The ids a request may list; DocP2 is in no store.
RequestIds == {IdA, DocA1, DocP, DocP1, DocP2, DocH1}
ReturnKinds == {"chunk", "parent", "both"}

DocsRequest(ids_is_list, ids, return_kind) ==
  [ids_is_list |-> ids_is_list, ids |-> ids, return_ |-> return_kind]

ValidDocsRequests ==
  {DocsRequest(TRUE, ids, kind) :
     ids \in SeqsUpTo(RequestIds, MaxIds) \ {<<>>}, kind \in ReturnKinds}

InvalidDocsRequests ==
  { DocsRequest(FALSE, <<>>, "chunk"), DocsRequest(TRUE, <<>>, "chunk"),
    DocsRequest(TRUE, <<IdA, <<>>>>, "parent"),
    DocsRequest(TRUE, <<Blank, DocP>>, "both"),
    DocsRequest(TRUE, <<IdA>>, "all") }

\* The validation of get_docs_by_id.
validate_docs_request(req) ==
  /\ req.ids_is_list
  /\ req.ids # <<>>
  /\ \A n \in 1..Len(req.ids) : Strip(req.ids[n]) # <<>>
  /\ req.return_ \in ReturnKinds

NoDocsStore == [registered |-> FALSE, maps |-> make_docs_impl(<<>>, <<>>)]
NoDocsRequest == DocsRequest(TRUE, <<>>, "")
NoDocsResponse == [outcome |-> "none", docs |-> <<>>]

DocsStart ==
  /\ docs_store = NoDocsStore
  /\ docs_request = NoDocsRequest
  /\ docs_response = NoDocsResponse

DocsIdle == DocsStart

\* init_rag_from_config: register_docs_impl(_make_docs_impl(chunks, parents))
RegisterDocsImpl ==
  /\ \E art \in Artifacts :
       docs_store' = [registered |-> TRUE,
                      maps |-> make_docs_impl(art.chunks, art.parents)]
  /\ docs_request' = NoDocsRequest
  /\ docs_response' = NoDocsResponse
  /\ UNCHANGED exceptDocs

\* clear_docs_impl
ClearDocsImpl ==
  /\ docs_store' = NoDocsStore
  /\ docs_request' = NoDocsRequest
  /\ docs_response' = NoDocsResponse
  /\ UNCHANGED exceptDocs

\* get_docs_by_id refuses the request before it looks for the impl.
GetDocsInvalid ==
  /\ \E req \in InvalidDocsRequests :
       /\ ~validate_docs_request(req)
       /\ docs_request' = req
       /\ docs_response' = [outcome |-> "INVALID_ARG", docs |-> <<>>]
  /\ UNCHANGED <<docs_store, exceptDocs>>

\* get_docs_by_id with no docs impl registered: get_docs_impl raises.
GetDocsNotConfigured ==
  /\ ~docs_store.registered
  /\ \E req \in ValidDocsRequests :
       /\ validate_docs_request(req)
       /\ docs_request' = req
       /\ docs_response' = [outcome |-> "DOCS_NOT_CONFIGURED", docs |-> <<>>]
  /\ UNCHANGED <<docs_store, exceptDocs>>

\* get_docs_by_id returns the documents the impl resolved.
GetDocsById ==
  /\ docs_store.registered
  /\ \E req \in ValidDocsRequests :
       /\ validate_docs_request(req)
       /\ docs_request' = req
       /\ docs_response' =
            [outcome |-> "returned",
             docs |-> docs_impl(docs_store.maps, req.ids, req.return_)]
  /\ UNCHANGED <<docs_store, exceptDocs>>

DocsNext ==
  \/ RegisterDocsImpl
  \/ ClearDocsImpl
  \/ GetDocsInvalid
  \/ GetDocsNotConfigured
  \/ GetDocsById

----------------------------------------------------------------------------
(* Claims about the model's output and about failed runs.                  *)

\* The value of the output once its fence is stripped, JsonOther when it is
\* not exactly one JSON text.
Parsed(out) ==
  LET s == strip_fences(out)
  IN  IF Loads(s) THEN JsonTexts[s[1]] ELSE JsonOther

\* An object of shape {action: "tool", name, args} or
\* {action: "final", answer, citations}.
ProperShape(out) ==
  LET v == Parsed(out)
  IN  /\ v.is_object
      /\ \/ v.action = "tool" /\ v.name # "missing" /\ v.has_args
         \/ v.action = "final" /\ v.has_answer /\ v.has_citations

ModelAnswered == model_calls' = model_calls + 1

C18_FailureKeepsSteps ==
  outcome.kind = "raise" => outcome.steps = steps

\* The steps of st that hold an observation.
ObservedSteps(st) == SelectSeq(st, LAMBDA s : s.hasObs)

\* The hits of the most recent tool result among the steps st; the empty
\* list when there is no result or it has no "hits".
LastHitsOf(st) ==
  LET obs == ObservedSteps(st)
  IN  IF obs = <<>> THEN ListOf(<<>>)
      ELSE IF obs[Len(obs)].observation.hits.kind = "absent" THEN ListOf(<<>>)
      ELSE obs[Len(obs)].observation.hits

----------------------------------------------------------------------------
(* Claims about the gate's checks and its choice of branch.                *)

BadProfile(profile) ==
  \/ ~profile.exists
  \/ ~profile.parsable
  \/ profile.process_count = 0
  \/ profile.end - profile.start <= 0

LastCall == gate_calls[Len(gate_calls)]

EventNames(evs) == [k \in 1..Len(evs) |-> evs[k].event]

MarkerCount(profile, rule) ==
  Cardinality({i \in 1..Len(profile.markers) : profile.markers[i] \in rule.any})

\* The rules whose marker count reaches their min_count.
Reaching(profile, rules) ==
  {i \in 1..Len(rules) : MarkerCount(profile, rules[i]) >= rules[i].min_count}

\* Those of them that name a marker at all.
Matching(profile, rules) ==
  {i \in Reaching(profile, rules) : rules[i].any # {}}

RuleScore(profile, rule) == Candidate(rule, MarkerCount(profile, rule))

\* What a returning call must hand back when `among` are the rules that
\* matched.
ReturnsBestOf(among) ==
  LET profile == gate_last.profile
      rules   == gate_last.rules
  IN  /\ among # {} =>
           \E i \in among :
              /\ \A j \in among :
                   ~ScoreLess(RuleScore(profile, rules[i]),
                              RuleScore(profile, rules[j]))
              /\ gate_last.branch = rules[i].name
              /\ gate_last.reason
                   = <<"matched markers count=", MarkerCount(profile, rules[i])>>
      /\ (gate_last.branch = "general" /\ gate_last.reason = DefaultReason)
           <=> among = {}

GateReturned == gate_calls # <<>> /\ LastCall.result = "returned"

----------------------------------------------------------------------------
(* Claims about document resolution.                                       *)

Resolved(kind) ==
  /\ docs_response.outcome = "returned"
  /\ docs_request.return_ = kind

\* The position of the document with this id in the result, 0 if none.
Pos(docs, id) ==
  IF \E k \in 1..Len(docs) : docs[k].id = id
  THEN CHOOSE k \in 1..Len(docs) :
         docs[k].id = id /\ \A l \in 1..(k - 1) : docs[l].id # id
  ELSE 0

NoIdTwice(docs) ==
  \A k, l \in 1..Len(docs) : k # l => docs[k].id # docs[l].id

\* The chunk has a parent document in the store.
HasParent(store, i) ==
  /\ IsChunk(store, i)
  /\ store.parent_of[i] # <<>>
  /\ IsParent(store, store.parent_of[i])

\* The document ids an input id stands for in mode both: itself, and the
\* parent of a chunk.
Offers(store, i) ==
  (IF IsChunk(store, i) \/ IsParent(store, i) THEN {i} ELSE {})
  \cup (IF HasParent(store, i) THEN {store.parent_of[i]} ELSE {})

\* Where in the input a document id first occurs, 0 if nowhere.
FirstOffer(store, ids, d) ==
  IF \E n \in 1..Len(ids) : d \in Offers(store, ids[n])
  THEN CHOOSE n \in 1..Len(ids) :
         /\ d \in Offers(store, ids[n])
         /\ \A m \in 1..(n - 1) : d \notin Offers(store, ids[m])
  ELSE 0

InInputOrder(store, ids, docs) ==
  /\ \A k \in 1..Len(docs) : FirstOffer(store, ids, docs[k].id) > 0
  /\ \A k, l \in 1..Len(docs) :
       k < l => FirstOffer(store, ids, docs[k].id)
                  <= FirstOffer(store, ids, docs[l].id)

\* C12 as stated: in mode both no id comes twice, every listed chunk comes
\* before its parent, and the documents are in input order.
C12_ChunkAlwaysBeforeParent ==
  Resolved("both") =>
    LET store == docs_store.maps
        ids   == docs_request.ids
        docs  == docs_response.docs
    IN  /\ NoIdTwice(docs)
        /\ InInputOrder(store, ids, docs)
        /\ \A n \in 1..Len(ids) :
             (HasParent(store, ids[n]) /\ store.parent_of[ids[n]] # ids[n])
             => /\ Pos(docs, ids[n]) > 0
                /\ Pos(docs, ids[n]) < Pos(docs, store.parent_of[ids[n]])

\* C12, amended: in mode both no id comes twice, the documents are in order
\* of first occurrence in the input, and a listed chunk is directly followed
\* by its parent unless the id of the chunk or of the parent was already
\* emitted for an earlier id of the request.
C12_BothNeverRepeatsAnId ==
  Resolved("both") =>
    LET store == docs_store.maps
        ids   == docs_request.ids
        docs  == docs_response.docs
    IN  /\ NoIdTwice(docs)
        /\ InInputOrder(store, ids, docs)
        /\ \A n \in 1..Len(ids) :
             LET i   == ids[n]
                 pid == store.parent_of[i]
             IN  (/\ HasParent(store, i)
                  /\ pid # i
                  /\ \A m \in 1..(n - 1) :
                       Offers(store, ids[m]) \cap {i, pid} = {})
                 => /\ Pos(docs, i) > 0
                    /\ Pos(docs, pid) = Pos(docs, i) + 1
                    /\ docs[Pos(docs, i)] = store.chunk_map[i]
                    /\ docs[Pos(docs, pid)] = store.parent_map[pid]

\* A parent listed before one of its chunks is not repeated behind it.
C12_Witness ==
  /\ Resolved("both")
  /\ docs_request.ids = <<DocP, DocP1>>
  /\ HasParent(docs_store.maps, DocP1)
  /\ Len(docs_response.docs) = 2
  /\ docs_response.docs[1].id = DocP
  /\ docs_response.docs[2].id = DocP1

\* The parent id an input id stands for in mode parent, <<>> if none: a
\* chunk stands for its parent, an id that is only a parent for itself.
Target(store, i) ==
  IF IsChunk(store, i)
  THEN (IF HasParent(store, i) THEN store.parent_of[i] ELSE <<>>)
  ELSE IF IsParent(store, i) THEN i ELSE <<>>

FirstTarget(store, ids, d) ==
  IF \E n \in 1..Len(ids) : Target(store, ids[n]) = d
  THEN CHOOSE n \in 1..Len(ids) :
         /\ Target(store, ids[n]) = d
         /\ \A m \in 1..(n - 1) : Target(store, ids[m]) # d
  ELSE 0

ParentsInOrder(store, ids, docs) ==
  /\ NoIdTwice(docs)
  /\ \A k \in 1..Len(docs) :
       /\ FirstTarget(store, ids, docs[k].id) > 0
       /\ docs[k] = store.parent_map[docs[k].id]
  /\ \A k, l \in 1..Len(docs) :
       k < l => FirstTarget(store, ids, docs[k].id)
                  < FirstTarget(store, ids, docs[l].id)
  /\ \A n \in 1..Len(ids) :
       HasParent(store, ids[n])
       => Pos(docs, store.parent_of[ids[n]]) > 0

\* C13 as stated: mode parent returns the parents of the listed chunks, each
\* once and in order of first appearance, and every listed parent id
\* resolves to itself.
C13_ParentIdResolvesToItself ==
  Resolved("parent") =>
    LET store == docs_store.maps
        ids   == docs_request.ids
        docs  == docs_response.docs
    IN  /\ NoIdTwice(docs)
        /\ \A n \in 1..Len(ids) :
             HasParent(store, ids[n])
             => Pos(docs, store.parent_of[ids[n]]) > 0
        /\ \A n \in 1..Len(ids) :
             IsParent(store, ids[n]) => Pos(docs, ids[n]) > 0

\* C13, amended: mode parent returns, for every listed chunk id whose
\* parent exists under a non-empty id, that parent, each distinct parent
\* once and in order of first appearance; a listed parent id that is not
\* also a chunk id resolves to itself, one that is also a chunk id resolves
\* as that chunk.
C13_ParentModeListsDistinctParents ==
  Resolved("parent") =>
    LET store == docs_store.maps
        ids   == docs_request.ids
        docs  == docs_response.docs
    IN  /\ ParentsInOrder(store, ids, docs)
        /\ \A n \in 1..Len(ids) :
             (IsParent(store, ids[n]) /\ ~IsChunk(store, ids[n]))
             => Pos(docs, ids[n]) > 0

\* An id that names both a chunk and a parent resolved to the chunk's
\* parent only.
C13_Witness ==
  /\ Resolved("parent")
  /\ docs_request.ids = <<IdA, DocP1>>
  /\ IsParent(docs_store.maps, IdA)
  /\ IsChunk(docs_store.maps, IdA)
  /\ Len(docs_response.docs) = 1
  /\ docs_response.docs[1].id = DocP

Known(store, i) == IsChunk(store, i) \/ IsParent(store, i)

KnownOnly(store, ids) == SelectSeq(ids, LAMBDA i : Known(store, i))

\* C14: a request whose ids are non-blank strings is answered in every mode
\* whatever ids the store lacks, and the answer is the one the request
\* without those ids gets.
C14_UnknownIdsContributeNothing ==
  (docs_store.registered /\ docs_response.outcome # "none"
     /\ validate_docs_request(docs_request))
  => /\ docs_response.outcome = "returned"
     /\ docs_response.docs
          = docs_impl(docs_store.maps,
                      KnownOnly(docs_store.maps, docs_request.ids),
                      docs_request.return_)

\* An answered request listing an id the store lacks next to one it has.
C14_Witness ==
  /\ docs_response.outcome = "returned"
  /\ docs_request.return_ = "parent"
  /\ docs_request.ids = <<DocP2, DocP1>>
  /\ ~Known(docs_store.maps, DocP2)
  /\ IsParent(docs_store.maps, DocP)
  /\ Len(docs_response.docs) = 1

----------------------------------------------------------------------------
(* agent/tool_router.py: call_tool                                         *)

\* A payload maps keys to values.  A value is kept as the class it falls in
\* for the checks the code makes: "absent" for a missing key, "ok" for a
\* well-formed value, else the way it is ill-formed.
AllFields ==
  {"query", "k", "filters", "reranker", "section_hard_limit",
   "ids", "return", "return_", "hits", "style", "token_budget",
   "profile", "name", "pid", "bogus"}

Payload(vals) ==
  [f \in AllFields |-> IF f \in DOMAIN vals THEN vals[f] ELSE "absent"]

NoPayload == [f \in AllFields |-> "absent"]

Present(payload) == {f \in AllFields : payload[f] # "absent"}

\* TOOL_SCHEMAS: the fields of each request dataclass (rag/types.py) and
\* those without a default.
RagTools == {"vector_search", "get_docs_by_id", "context_summarize"}

RequestFields(name) ==
  CASE name = "vector_search" ->
         {"query", "k", "filters", "reranker", "section_hard_limit"}
    [] name = "get_docs_by_id" -> {"ids", "return_"}
    [] name = "context_summarize" -> {"hits", "style", "token_budget"}

RequiredFields(name) ==
  CASE name = "vector_search" -> {"query"}
    [] name = "get_docs_by_id" -> {"ids"}
    [] name = "context_summarize" -> {"hits"}

\* The payloads the model calls each retrieval tool with.
VectorSearchPayloads ==
  { Payload([query |-> q, k |-> kk, filters |-> fl, reranker |-> rr,
             section_hard_limit |-> sl, bogus |-> x]) :
      q \in {"absent", "ok", "blank", "nonstr"},
      kk \in {"absent", "ok", "zero", "nonint"},
      fl \in {"absent", "ok", "nondict"},
      rr \in {"absent", "ok", "unknown"},
      sl \in {"absent", "ok", "negative"},
      x \in {"absent", "ok"} }

GetDocsPayloads ==
  { Payload([ids |-> i, return |-> r1, return_ |-> r2, bogus |-> x]) :
      i \in {"absent", "ok", "empty", "notlist", "blank_id"},
      r1 \in {"absent", "ok", "unknown"},
      r2 \in {"absent", "ok", "unknown"},
      x \in {"absent", "ok"} }

SummarizePayloads ==
  { Payload([hits |-> h, style |-> st, token_budget |-> tb, bogus |-> x]) :
      h \in {"absent", "ok", "notlist", "bad_items"},
      st \in {"absent", "ok", "unknown"},
      tb \in {"absent", "ok", "negative", "nonint"},
      x \in {"absent", "ok"} }

RagPayloads(name) ==
  CASE name = "vector_search" -> VectorSearchPayloads
    [] name = "get_docs_by_id" -> GetDocsPayloads
    [] name = "context_summarize" -> SummarizePayloads

\* _payload_to_request: the 'return' key is moved to 'return_', then the
\* dataclass is built, which refuses a missing required field and any key
\* that is not one of its fields; a field left out takes its default.
rename_return(name, payload) ==
  IF name = "get_docs_by_id" /\ payload["return"] # "absent"
     /\ payload["return_"] = "absent"
  THEN [payload EXCEPT !["return_"] = payload["return"],
                       !["return"] = "absent"]
  ELSE payload

\* A conversion that drops the keys the dataclass does not know.
payload_to_request_lenient(name, payload) ==
  LET p == rename_return(name, payload)
  IN  IF ~(RequiredFields(name) \subseteq Present(p))
      THEN [ok |-> FALSE, req |-> NoPayload]
      ELSE [ok |-> TRUE,
            req |-> [f \in AllFields |->
                       IF f \notin RequestFields(name) THEN "absent"
                       ELSE IF p[f] = "absent" THEN "ok" ELSE p[f]]]

payload_to_request(name, payload) ==
  LET p == rename_return(name, payload)
  IN  IF \/ ~(Present(p) \subseteq RequestFields(name))
         \/ ~(RequiredFields(name) \subseteq Present(p))
      THEN [ok |-> FALSE, req |-> NoPayload]
      ELSE [ok |-> TRUE,
            req |-> [f \in AllFields |->
                       IF f \in RequestFields(name) /\ p[f] = "absent"
                       THEN "ok" ELSE p[f]]]

\* What a call invoked: the search, docs or summarizer implementation, or
\* a domain tool's function with a profile and keyword arguments.
Invocation(target, profile, kwargs) ==
  [target |-> target, profile |-> profile, kwargs |-> kwargs]

RouterResult(how, invoked) == [outcome |-> how, invocations |-> invoked]

\* vector_search (rag/tools/vector_search.py).  A filters value that is
\* not a dict makes the keyword search_impl raise; the reranker is handed
\* to the impl as it is.
vector_search(req, configured) ==
  IF req["query"] # "ok" THEN RouterResult("INVALID_ARG", <<>>)
  ELSE IF req["k"] # "ok" THEN RouterResult("INVALID_ARG", <<>>)
  ELSE IF req["section_hard_limit"] # "ok" THEN RouterResult("INVALID_ARG", <<>>)
  ELSE IF ~configured THEN RouterResult("INDEX_NOT_CONFIGURED", <<>>)
  ELSE RouterResult(IF req["filters"] = "nondict" THEN "IMPL_RAISED"
                    ELSE "returned",
                    <<Invocation("search_impl", "none", {})>>)

\* get_docs_by_id (rag/tools/get_docs_by_id.py)
get_docs_by_id(req, configured) ==
  IF req["ids"] # "ok" THEN RouterResult("INVALID_ARG", <<>>)
  ELSE IF req["return_"] # "ok" THEN RouterResult("INVALID_ARG", <<>>)
  ELSE IF ~configured THEN RouterResult("DOCS_NOT_CONFIGURED", <<>>)
  ELSE RouterResult("returned", <<Invocation("docs_impl", "none", {})>>)

\* context_summarize (rag/tools/context_summarize.py): a hit that is
\* neither a dict nor a VectorSearchHit makes _hit_to_dict raise before
\* the summarizer runs.
context_summarize(req) ==
  IF req["hits"] = "notlist" THEN RouterResult("INVALID_ARG", <<>>)
  ELSE IF req["style"] # "ok" THEN RouterResult("INVALID_ARG", <<>>)
  ELSE IF req["token_budget"] # "ok" THEN RouterResult("INVALID_ARG", <<>>)
  ELSE IF req["hits"] = "bad_items" THEN RouterResult("HIT_ERROR", <<>>)
  ELSE RouterResult("returned", <<Invocation("summarizer", "none", {})>>)

\* call_tool, RAG path.
call_rag_tool(name, payload, configured) ==
  LET conv == payload_to_request(name, payload)
  IN  IF ~conv.ok THEN RouterResult("INVALID_ARG", <<>>)
      ELSE CASE name = "vector_search" -> vector_search(conv.req, configured)
             [] name = "get_docs_by_id" -> get_docs_by_id(conv.req, configured)
             [] name = "context_summarize" -> context_summarize(conv.req)

\* _DOMAIN_TOOL_REGISTRY: each tool with its declared "args".
DomainTools == {"find_video_sink_dropped_frames", "extract_process"}

DeclaredArgs(name) ==
  CASE name = "find_video_sink_dropped_frames" -> {}
    [] name = "extract_process" -> {"name", "pid"}

\* "profile" is None (or missing), or a profile of the payload's own.
DomainPayloads ==
  { Payload([profile |-> pr, name |-> n, pid |-> pd, bogus |-> x]) :
      pr \in {"absent", "payload_profile"},
      n \in {"absent", "ok"},
      pd \in {"absent", "ok"},
      x \in {"absent", "ok"} }

RuntimeProfiles == {"none", "runtime_profile"}

\* A lookup that asks the runtime context first.
resolve_profile_runtime_first(payload, runtime) ==
  IF runtime # "none" THEN runtime
  ELSE IF payload["profile"] # "absent" THEN payload["profile"]
  ELSE "none"

\* _resolve_profile: the profile to use, "none" for MISSING_PROFILE.
resolve_profile(payload, runtime) ==
  IF payload["profile"] # "absent" THEN payload["profile"]
  ELSE IF runtime # "none" THEN runtime
  ELSE "none"

\* Keyword arguments that keep every key of the payload.
domain_kwargs_unfiltered(name, payload) ==
  {f \in Present(payload) : f # "profile"}

\* kwargs: the payload's entries under a declared name.
domain_kwargs(name, payload) ==
  {f \in Present(payload) : f # "profile" /\ f \in DeclaredArgs(name)}

\* What the tool's function may do once called.
ToolEndings == {"returned", "TOOL_RAISED"}

\* call_tool, domain path, for a function that ends as `ending`.
call_domain_tool(name, payload, runtime, ending) ==
  LET profile == resolve_profile(payload, runtime)
  IN  IF profile = "none" THEN RouterResult("MISSING_PROFILE", <<>>)
      ELSE RouterResult(ending,
                        <<Invocation(name, profile, domain_kwargs(name, payload))>>)

Called(name, payload) == [name |-> name, payload |-> payload]

NoCall == Called("", NoPayload)
NoRouterResult == RouterResult("none", <<>>)

RouterStart ==
  /\ current_profile = "none"
  /\ impls_configured = FALSE
  /\ router_call = NoCall
  /\ router_result = NoRouterResult

RouterIdle == RouterStart

\* set_current_profile
SetCurrentProfile ==
  /\ \E profile \in RuntimeProfiles : current_profile' = profile
  /\ router_call' = NoCall
  /\ router_result' = NoRouterResult
  /\ UNCHANGED <<impls_configured, exceptRouter>>

\* init_rag_from_config registers the search and docs impls; the clear_*
\* functions take them away.
ConfigureImpls ==
  /\ impls_configured' = ~impls_configured
  /\ router_call' = NoCall
  /\ router_result' = NoRouterResult
  /\ UNCHANGED <<current_profile, exceptRouter>>

CallRagTool ==
  /\ \E name \in RagTools :
       \E payload \in RagPayloads(name) :
          /\ router_call' = Called(name, payload)
          /\ router_result' = call_rag_tool(name, payload, impls_configured)
  /\ UNCHANGED <<current_profile, impls_configured, exceptRouter>>

CallDomainTool ==
  /\ \E name \in DomainTools, payload \in DomainPayloads,
        ending \in ToolEndings :
       /\ router_call' = Called(name, payload)
       /\ router_result'
            = call_domain_tool(name, payload, current_profile, ending)
  /\ UNCHANGED <<current_profile, impls_configured, exceptRouter>>

\* A name in neither registry.
CallUnknownTool ==
  /\ \E payload \in {NoPayload, Payload([query |-> "ok"])} :
       router_call' = Called("nope", payload)
  /\ router_result' = RouterResult("UNKNOWN_TOOL", <<>>)
  /\ UNCHANGED <<current_profile, impls_configured, exceptRouter>>

RouterNext ==
  \/ SetCurrentProfile
  \/ ConfigureImpls
  \/ CallRagTool
  \/ CallDomainTool
  \/ CallUnknownTool

----------------------------------------------------------------------------
(* Claims about call_tool.                                                 *)

\* The keys a retrieval tool takes from a payload.
KnownKeys(name) ==
  RequestFields(name) \cup (IF name = "get_docs_by_id" THEN {"return"} ELSE {})

\* The payload lacks a required field, carries an unknown field, or has a
\* field of the wrong type or out of range.
IllFormed(name, payload) ==
  \/ ~(RequiredFields(name) \subseteq Present(payload))
  \/ ~(Present(payload) \subseteq KnownKeys(name))
  \/ \E f \in Present(payload) : payload[f] # "ok"

\* C19: with the implementations registered, a retrieval tool called with
\* an ill-formed payload ends in INVALID_ARG and invokes no search, docs or
\* summarizer implementation; a name in no registry ends in UNKNOWN_TOOL.
C19_IllFormedPayloadIsInvalidArg ==
  /\ (router_call.name \in RagTools
        /\ impls_configured
        /\ IllFormed(router_call.name, router_call.payload))
     => /\ router_result.outcome = "INVALID_ARG"
        /\ router_result.invocations = <<>>
  /\ (router_call.name \notin (RagTools \cup DomainTools \cup {""}))
     => router_result.outcome = "UNKNOWN_TOOL"

----------------------------------------------------------------------------
(* rag/ingest.py: build_chunks and ingest_tree                             *)

\* A front-matter entry: missing, or a string (possibly empty).
NoKey == [present |-> FALSE, v |-> <<>>]
Key(v) == [present |-> TRUE, v |-> v]

\* x is truthy, as `x or ...` tests it: present and not the empty string
Truthy(val) == val.present /\ val.v # <<>>

UnknownDoc == <<"unknown-doc">>

Digits == <<"0", "1", "2", "3", "4", "5", "6", "7", "8", "9">>

\* str(n) of a natural number
RECURSIVE Str(_)
Str(n) == IF n < 10 THEN <<Digits[n + 1]>>
          ELSE Str(n \div 10) \o <<Digits[(n % 10) + 1]>>

\* A parsed markdown file: the id and doc_id entries of its front matter and
\* the number of its non-blank sections.
Markdown(id, doc_id, sections) ==
  [id |-> id, doc_id |-> doc_id, sections |-> sections]

MarkdownFiles ==
  {Markdown(id, doc_id, n) :
     id \in {NoKey, Key(<<>>), Key(IdA), Key(IdB)},
     doc_id \in {NoKey, Key(IdA)},
     n \in 0..MaxSections}

\* doc_id of build_chunks: id, else doc_id, else "unknown-doc".
doc_id_of(meta) ==
  IF Truthy(meta.id) THEN meta.id.v
  ELSE IF Truthy(meta.doc_id) THEN meta.doc_id.v
  ELSE UnknownDoc

IngestChunk(doc_id, chunk_id) == [doc_id |-> doc_id, chunk_id |-> chunk_id]

\* build_chunks: one chunk per section, its id the doc id, "#" and the
\* 0-based position of the section.
build_chunks(md) ==
  LET doc_id == doc_id_of(md)
  IN  [i \in 1..md.sections |->
         IngestChunk(doc_id, doc_id \o <<"#">> \o Str(i - 1))]

NotWritten == <<"not written">>

IngestStart ==
  /\ md_tree = <<>>
  /\ ingest_pos = 0
  /\ all_chunks = <<>>
  /\ jsonl_out = NotWritten

IngestIdle == IngestStart

\* A markdown file is put under the input directory, after the others in
\* path order.
AddMarkdown ==
  /\ ingest_pos = 0
  /\ Len(md_tree) < MaxFiles
  /\ \E md \in MarkdownFiles : md_tree' = Append(md_tree, md)
  /\ UNCHANGED <<ingest_pos, all_chunks, jsonl_out, exceptIngest>>

\* ingest_tree starts: the files are discovered and sorted, all_chunks = [].
IngestTreeBegin ==
  /\ ingest_pos = 0
  /\ ingest_pos' = 1
  /\ all_chunks' = <<>>
  /\ UNCHANGED <<md_tree, jsonl_out, exceptIngest>>

\* One turn of the loop: all_chunks.extend(ingest_file(p)).
IngestFile ==
  /\ ingest_pos >= 1
  /\ ingest_pos <= Len(md_tree)
  /\ all_chunks' = all_chunks \o build_chunks(md_tree[ingest_pos])
  /\ ingest_pos' = ingest_pos + 1
  /\ UNCHANGED <<md_tree, jsonl_out, exceptIngest>>

\* write_jsonl(all_chunks, out_file), and ingest_tree returns the count.
IngestTreeEnd ==
  /\ ingest_pos = Len(md_tree) + 1
  /\ jsonl_out' = all_chunks
  /\ ingest_pos' = 0
  /\ UNCHANGED <<md_tree, all_chunks, exceptIngest>>

IngestNext ==
  \/ AddMarkdown
  \/ IngestTreeBegin
  \/ IngestFile
  \/ IngestTreeEnd

----------------------------------------------------------------------------
(* Claims about ingestion.                                                 *)

\* C23: the chunk ids produced in one ingestion run are pairwise distinct,
\* whatever the front-matter ids of the documents (equal ones and missing
\* ones included).
C23_ChunkIdsDistinctPerRun ==
  \A i, j \in 1..Len(all_chunks) :
     i # j => all_chunks[i].chunk_id # all_chunks[j].chunk_id

----------------------------------------------------------------------------
(* rag/manifest.py: write_index_manifest and _load_manifest, interleaved   *)

\* The processes that write manifests into the one index directory.
Writers == {1, 2}

\* The k-th piece of the text of the manifest that writer w dumps in its
\* g-th call.
Piece(w, g, k) == [w |-> w, g |-> g, k |-> k]

\* A byte range no write has filled (a hole after a truncation).
Hole == [w |-> 0, g |-> 0, k |-> 0]

\* The whole text of that manifest.
WholeText(w, g) == [k \in 1..ManifestParts |-> Piece(w, g, k)]

\* write() of one piece at offset off of a file: the bytes there are
\* overwritten, the file is extended (with a hole if need be).
WriteAt(content, off, piece) ==
  [i \in 1..Max(Len(content), off + 1) |->
     IF i = off + 1 THEN piece
     ELSE IF i <= Len(content) THEN content[i] ELSE Hole]

\* A writer: its step, the file its descriptor is open on, its offset in
\* that file, and the number of calls it has begun.
Writer(at, fd, off, calls) ==
  [at |-> at, fd |-> fd, off |-> off, calls |-> calls]

\* What a load observed: no file, a text that parses, or one that does not.
LoadResult(how, text) == [outcome |-> how, text |-> text]
NotRead == LoadResult("none", <<>>)

\* json.load succeeds on a text: it is the whole text of one manifest.
Parses(text) ==
  \E w \in Writers, g \in 1..MaxManifestWrites : text = WholeText(w, g)

MfStart ==
  /\ mf_inodes = <<>>
  /\ mf_tmp = 0
  /\ mf_final = 0
  /\ mf_writer = [w \in Writers |-> Writer("idle", 0, 0, 0)]
  /\ mf_read = NotRead

MfIdle == MfStart

CallsBegun == mf_writer[1].calls + mf_writer[2].calls

\* open(tmp, "w") of write_index_manifest: manifest.json.tmp is created, or
\* truncated if a file of that name exists.
WriterOpensTmp(w) ==
  /\ mf_writer[w].at \in {"idle", "returned", "raised"}
  /\ CallsBegun < MaxManifestWrites
  /\ IF mf_tmp = 0
     THEN /\ mf_inodes' = Append(mf_inodes, <<>>)
          /\ mf_tmp' = Len(mf_inodes) + 1
     ELSE /\ mf_inodes' = [mf_inodes EXCEPT ![mf_tmp] = <<>>]
          /\ UNCHANGED mf_tmp
  /\ mf_writer' = [mf_writer EXCEPT
                     ![w] = Writer("open", mf_tmp', 0, mf_writer[w].calls + 1)]
  /\ UNCHANGED <<mf_final, mf_read, exceptMf>>

\* json.dump(manifest, f): the next piece of the text reaches the file.
WriterDumps(w) ==
  /\ mf_writer[w].at = "open"
  /\ mf_writer[w].off < ManifestParts
  /\ mf_inodes' =
       [mf_inodes EXCEPT
          ![mf_writer[w].fd] =
             WriteAt(mf_inodes[mf_writer[w].fd], mf_writer[w].off,
                     Piece(w, mf_writer[w].calls, mf_writer[w].off + 1))]
  /\ mf_writer' = [mf_writer EXCEPT ![w].off = mf_writer[w].off + 1]
  /\ UNCHANGED <<mf_tmp, mf_final, mf_read, exceptMf>>

\* The with block ends: the file is closed.
WriterCloses(w) ==
  /\ mf_writer[w].at = "open"
  /\ mf_writer[w].off = ManifestParts
  /\ mf_writer' = [mf_writer EXCEPT ![w].at = "closed"]
  /\ UNCHANGED <<mf_inodes, mf_tmp, mf_final, mf_read, exceptMf>>

\* os.replace(tmp, final): manifest.json now names the file that
\* manifest.json.tmp named; FileNotFoundError if there is no such file.
WriterReplaces(w) ==
  /\ mf_writer[w].at = "closed"
  /\ IF mf_tmp = 0
     THEN /\ mf_writer' = [mf_writer EXCEPT ![w].at = "raised"]
          /\ UNCHANGED <<mf_tmp, mf_final>>
     ELSE /\ mf_final' = mf_tmp
          /\ mf_tmp' = 0
          /\ mf_writer' = [mf_writer EXCEPT ![w].at = "returned"]
  /\ UNCHANGED <<mf_inodes, mf_read, exceptMf>>

\* _load_manifest by a reader: missing, loaded, or corrupted.
LoadManifest ==
  /\ mf_read' =
       IF mf_final = 0 THEN LoadResult("missing", <<>>)
       ELSE IF Parses(mf_inodes[mf_final])
       THEN LoadResult("loaded", mf_inodes[mf_final])
       ELSE LoadResult("corrupted", mf_inodes[mf_final])
  /\ UNCHANGED <<mf_inodes, mf_tmp, mf_final, mf_writer, exceptMf>>

MfNext ==
  \/ \E w \in Writers : WriterOpensTmp(w)
  \/ \E w \in Writers : WriterDumps(w)
  \/ \E w \in Writers : WriterCloses(w)
  \/ \E w \in Writers : WriterReplaces(w)
  \/ LoadManifest

----------------------------------------------------------------------------
(* Claims about the manifest under concurrent use.                         *)

\* C24: however the steps of write_index_manifest interleave with readers
\* and with another write into the same directory, a load observes no
\* manifest or one complete manifest, never a partly written file.
C24_ReadersNeverSeePartialManifest ==
  mf_read.outcome \in {"none", "missing", "loaded"}

\* With one writer at work the loads are as the claim says.
OneWriterIsAtomic ==
  mf_writer[2].calls = 0 => C24_ReadersNeverSeePartialManifest

----------------------------------------------------------------------------
(* policy/preamble.py: PolicyPreambleInjector.inject on one state store    *)

Threads == {1, 2}
ProfileIds == {"p1", "p2"}

\* A thread in inject: its step, the profile id of the call, and whether
\* the policy file existed at some moment of the call.
Injecting(at, profile_id, file_seen) ==
  [at |-> at, profile_id |-> profile_id, file_seen |-> file_seen]

NotInjecting == Injecting("idle", "", FALSE)

PolicyIdle ==
  /\ policy_file = FALSE
  /\ card_cache = "off"
  /\ applied = {}
  /\ injector = [th \in Threads |-> NotInjecting]
  /\ prepends = [pid \in ProfileIds |-> 0]
  /\ inject_calls = 0

\* An injector on a fresh state store; the loader caches (the default) or
\* does not, and the policy file is there or is not.
PolicyStart ==
  /\ policy_file \in BOOLEAN
  /\ card_cache \in {"off", "empty"}
  /\ applied = {}
  /\ injector = [th \in Threads |-> NotInjecting]
  /\ prepends = [pid \in ProfileIds |-> 0]
  /\ inject_calls = 0

\* Every thread in a call notes a file that exists now.
SeenWith(file_now) ==
  [th \in Threads |->
     IF injector[th].at # "idle" /\ file_now
     THEN [injector[th] EXCEPT !.file_seen = TRUE]
     ELSE injector[th]]

\* general-flow.md is written or removed while the process runs.
PolicyFileChanges ==
  /\ policy_file' = ~policy_file
  /\ injector' = SeenWith(policy_file')
  /\ UNCHANGED <<card_cache, applied, prepends, inject_calls, exceptPolicy>>

\* inject, lines 242-245: get_applied under the lock; an applied profile
\* gets its messages back.
InjectChecks(th) ==
  /\ injector[th].at = "idle"
  /\ inject_calls < MaxInjectCalls
  /\ inject_calls' = inject_calls + 1
  /\ \E pid \in ProfileIds :
       injector' = [injector EXCEPT
                      ![th] = IF pid \in applied THEN NotInjecting
                              ELSE Injecting("load", pid, policy_file)]
  /\ UNCHANGED <<policy_file, card_cache, applied, prepends, exceptPolicy>>

\* inject, lines 246-250: get_policy_card answers from the cache or reads
\* the file; FileNotFoundError gives the messages back.
InjectLoads(th) ==
  /\ injector[th].at = "load"
  /\ IF card_cache = "full"
     THEN /\ injector' = [injector EXCEPT ![th].at = "mark"]
          /\ UNCHANGED card_cache
     ELSE IF ~policy_file
     THEN /\ injector' = [injector EXCEPT ![th] = NotInjecting]
          /\ UNCHANGED card_cache
     ELSE /\ injector' = [injector EXCEPT ![th].at = "mark"]
          /\ card_cache' = IF card_cache = "empty" THEN "full" ELSE card_cache
  /\ UNCHANGED <<policy_file, applied, prepends, inject_calls, exceptPolicy>>

\* inject, lines 252-261: the card is put before the messages and the
\* profile is set applied under the lock.
InjectMarks(th) ==
  /\ injector[th].at = "mark"
  /\ applied' = applied \cup {injector[th].profile_id}
  /\ prepends' = [prepends EXCEPT ![injector[th].profile_id] = @ + 1]
  /\ injector' = [injector EXCEPT ![th] = NotInjecting]
  /\ UNCHANGED <<policy_file, card_cache, inject_calls, exceptPolicy>>

PolicyNext ==
  \/ PolicyFileChanges
  \/ \E th \in Threads : InjectChecks(th)
  \/ \E th \in Threads : InjectLoads(th)
  \/ \E th \in Threads : InjectMarks(th)

----------------------------------------------------------------------------
(* Claims about the policy preamble.                                       *)

\* At most one inject call per profile id prepends the card.
C28_AtMostOncePerProfile == \A pid \in ProfileIds : prepends[pid] <= 1

\* A call during which the policy file never existed leaves `applied` as
\* it was.
C28_MissingFileMarksNothing ==
  \A th \in Threads :
     (injector[th].at = "mark" /\ injector'[th].at = "idle")
       => (injector[th].file_seen \/ applied' = applied)

\* C28: however inject calls for one profile id follow one another or
\* interleave on one state store, at most one of them prepends the policy
\* card and the others give the messages back unchanged; a call made while
\* the policy file is missing does not set the profile applied.
C28_InjectOncePerProfile ==
  []C28_AtMostOncePerProfile /\ [][C28_MissingFileMarksNothing]_vars

----------------------------------------------------------------------------
(* Specifications: one component runs, the others stay idle.               *)

InitReact ==
  /\ PolicyIdle
  /\ MfIdle
  /\ IngestIdle
  /\ RouterIdle
  /\ DocsIdle
  /\ SearchIdle
  /\ SumIdle
  /\ ReactStart
  /\ GateIdle
  /\ IdxIdle

SpecReact == InitReact /\ [][ReactNext]_vars

InitGate ==
  /\ PolicyIdle
  /\ MfIdle
  /\ IngestIdle
  /\ RouterIdle
  /\ DocsIdle
  /\ SearchIdle
  /\ SumIdle
  /\ GateStart
  /\ ReactIdle
  /\ IdxIdle

SpecGate == InitGate /\ [][GateNext]_vars

InitIdx ==
  /\ PolicyIdle
  /\ MfIdle
  /\ IngestIdle
  /\ RouterIdle
  /\ DocsIdle
  /\ SearchIdle
  /\ SumIdle
  /\ IdxStart
  /\ ReactIdle
  /\ GateIdle

SpecIdx == InitIdx /\ [][IdxNext]_vars

InitSum ==
  /\ PolicyIdle
  /\ MfIdle
  /\ IngestIdle
  /\ RouterIdle
  /\ DocsIdle
  /\ SearchIdle
  /\ SumStart
  /\ ReactIdle
  /\ GateIdle
  /\ IdxIdle

SpecSum == InitSum /\ [][SumNext]_vars

InitSearch ==
  /\ PolicyIdle
  /\ MfIdle
  /\ IngestIdle
  /\ RouterIdle
  /\ DocsIdle
  /\ SearchStart
  /\ SumIdle
  /\ ReactIdle
  /\ GateIdle
  /\ IdxIdle

SpecSearch == InitSearch /\ [][SearchNext]_vars

InitDocs ==
  /\ PolicyIdle
  /\ MfIdle
  /\ IngestIdle
  /\ RouterIdle
  /\ DocsStart
  /\ SearchIdle
  /\ SumIdle
  /\ ReactIdle
  /\ GateIdle
  /\ IdxIdle

SpecDocs == InitDocs /\ [][DocsNext]_vars

InitRouter ==
  /\ PolicyIdle
  /\ MfIdle
  /\ IngestIdle
  /\ RouterStart
  /\ DocsIdle
  /\ SearchIdle
  /\ SumIdle
  /\ ReactIdle
  /\ GateIdle
  /\ IdxIdle

SpecRouter == InitRouter /\ [][RouterNext]_vars

InitIngest ==
  /\ PolicyIdle
  /\ MfIdle
  /\ IngestStart
  /\ RouterIdle
  /\ DocsIdle
  /\ SearchIdle
  /\ SumIdle
  /\ ReactIdle
  /\ GateIdle
  /\ IdxIdle

SpecIngest == InitIngest /\ [][IngestNext]_vars

InitMf ==
  /\ PolicyIdle
  /\ MfStart
  /\ IngestIdle
  /\ RouterIdle
  /\ DocsIdle
  /\ SearchIdle
  /\ SumIdle
  /\ ReactIdle
  /\ GateIdle
  /\ IdxIdle

SpecMf == InitMf /\ [][MfNext]_vars

SpecTracers == InitGate /\ [][TracersNext]_vars

InitPolicy ==
  /\ PolicyStart
  /\ MfIdle
  /\ IngestIdle
  /\ RouterIdle
  /\ DocsIdle
  /\ SearchIdle
  /\ SumIdle
  /\ ReactIdle
  /\ GateIdle
  /\ IdxIdle

SpecPolicy == InitPolicy /\ [][PolicyNext]_vars

=============================================================================
